---- MODULE Spec2Model ----
(***************************************************************************)
(* Encounter / boss / kickable-object core of brainrot-bosses.             *)
(*                                                                         *)
(*   EncounterSystem  src/unnamed/part_001                                 *)
(*   Boss             src/unnamed/part_002                                 *)
(*   KickableObject   src/unnamed/part_003                                 *)
(*                                                                         *)
(* Five specifications share the variables:                                *)
(*   Spec           the EncounterSystem driven by its public operations,   *)
(*                  the clock and the damage dealt to its boss;            *)
(*   SpecAggro      the EncounterSystem driven by its public operations    *)
(*                  and by what happens to its regular enemies;            *)
(*   SpecZoneProps  the EncounterSystem driven by its public operations    *)
(*                  and by what happens to the props of its zone;          *)
(*   SpecBoss       one Boss constructed directly from a BossConfig;       *)
(*   SpecProp       one KickableObject driven by its public methods.       *)
(*                                                                         *)
(* Numbers.  Coordinates, radii and health are the integers of the         *)
(* catalog.  A health threshold t is kept as the percentage 100*t.         *)
(* Distances are compared through their squares, which is exact for the    *)
(* integer coordinates used.  Prop velocities are integers (units per      *)
(* second) and every product with a decimal factor is truncated toward     *)
(* zero.  Time is in milliseconds.                                         *)
(***************************************************************************)
EXTENDS Integers, Sequences, FiniteSets, TLC

\* null, for a string, for an object reference and for a Vector2 reference.
Null == "null"
NullRef == [null |-> TRUE]
NullVec == << >>

\* ------------------------------------------------------------------------
\* Bounds of the exploration
\* ------------------------------------------------------------------------
\* Date.now() starts at NowStart and is advanced in steps of TickStep up to
\* NowStart + MaxTicks * TickStep.
MaxTicks == 1
\* Enemies with pool slot <= MaxHurt are the ones the collaborators damage
\* or move in SpecAggro.
MaxHurt == 1
\* Active props with index <= MaxKicked are the ones kicked or damaged in
\* SpecZoneProps.
MaxKicked == 1
\* An update is explored while the swim timer of the boss is below
\* MaxSwimUpdates fixed ticks.
MaxSwimUpdates == 2

\* ------------------------------------------------------------------------
\* Vector2
\* ------------------------------------------------------------------------
\* Square of Vector2.distance(a, b).
DistSq(a, b) == (a[1] - b[1]) * (a[1] - b[1]) + (a[2] - b[2]) * (a[2] - b[2])

\* Largest r with r*r <= n: Math.sqrt truncated.  lo*lo <= n < hi*hi.
RECURSIVE SqrtBetween(_, _, _)
SqrtBetween(n, lo, hi) ==
  IF hi - lo <= 1 THEN lo
  ELSE LET mid == (lo + hi) \div 2
       IN  IF mid * mid <= n THEN SqrtBetween(n, mid, hi) ELSE SqrtBetween(n, lo, mid)

\* Truncating division (toward zero).
TDiv(a, b) == IF a >= 0 THEN a \div b ELSE -((-a) \div b)

\* ------------------------------------------------------------------------
\* Zone catalog (EncounterSystem.createGameZones)
\* ------------------------------------------------------------------------
STATIONARY == "stationary"
PATROLLING == "patrolling"
AGGROED == "aggroed"

NoPath == << >>

Placement(x, y, r, st, path) ==
  [position |-> <<x, y>>, aggroRadius |-> r, state |-> st, patrolPath |-> path]

Phase(t, ab, mp) == [healthThreshold |-> t, abilities |-> ab, movementPattern |-> mp]

\* this.zones, in catalog order.
zones ==
  << [id |-> "tutorial-grove",
   enemies |-> << Placement(300, 200, 100, STATIONARY, NoPath),
                  Placement(500, 300, 120, STATIONARY, NoPath),
                  Placement(700, 150, 140, STATIONARY, NoPath),
                  Placement(400, 500, 110, STATIONARY, NoPath),
                  Placement(800, 400, 130, STATIONARY, NoPath) >>,
   kickableObjects |-> << "barrel", "box", "stone" >>,
   boss |-> [type |-> "swarm-king", position |-> <<900, 600>>, health |-> 300,
             phases |-> << Phase(100, <<"summon-swarm">>, "circle"),
                           Phase(50, <<"summon-swarm", "charge-attack">>, "aggressive") >>,
             arenaRadius |-> 200, unlockCharacter |-> "chimpanzini-bananini"],
   requiredCharacters |-> {},
   isUnlocked |-> TRUE],

  [id |-> "desert-outpost",
   enemies |-> << Placement(1700, 200, 120, PATROLLING,
                            << <<1700, 200>>, <<1900, 200>>, <<1900, 400>>, <<1700, 400>> >>),
                  Placement(2000, 300, 160, STATIONARY, NoPath),
                  Placement(2200, 150, 140, STATIONARY, NoPath),
                  Placement(1800, 500, 100, STATIONARY, NoPath),
                  Placement(2100, 600, 130, STATIONARY, NoPath),
                  Placement(2300, 450, 180, STATIONARY, NoPath) >>,
   kickableObjects |-> << "barrel", "stone", "log" >>,
   boss |-> [type |-> "desert-bomber", position |-> <<2500, 700>>, health |-> 500,
             phases |-> << Phase(100, <<"bomb-barrage">>, "stationary"),
                           Phase(70, <<"bomb-barrage", "charge-slam">>, "chase"),
                           Phase(30, <<"mega-bomb", "charge-slam">>, "berserker") >>,
             arenaRadius |-> 250, unlockCharacter |-> "bombardiro-crocodilo"],
   requiredCharacters |-> {"chimpanzini-bananini"},
   isUnlocked |-> FALSE],

  [id |-> "arctic-lab",
   enemies |-> << Placement(200, 1400, 200, PATROLLING,
                            << <<200, 1400>>, <<400, 1400>>, <<400, 1600>>, <<200, 1600>> >>),
                  Placement(600, 1300, 140, STATIONARY, NoPath),
                  Placement(800, 1500, 130, STATIONARY, NoPath),
                  Placement(1000, 1350, 160, STATIONARY, NoPath),
                  Placement(1200, 1450, 180, STATIONARY, NoPath),
                  Placement(900, 1700, 170, STATIONARY, NoPath),
                  Placement(1100, 1650, 160, STATIONARY, NoPath) >>,
   kickableObjects |-> << "barrel", "box", "stone", "barrel" >>,
   boss |-> [type |-> "ice-shark", position |-> <<1400, 1800>>, health |-> 700,
             phases |-> << Phase(100, <<"ice-dash">>, "swimming"),
                           Phase(60, <<"ice-dash", "freeze-wave">>, "aggressive-swim"),
                           Phase(20, <<"mega-freeze", "triple-dash">>, "frenzy") >>,
             arenaRadius |-> 300, unlockCharacter |-> "tralalero-tralala"],
   requiredCharacters |-> {"bombardiro-crocodilo"},
   isUnlocked |-> FALSE] >>

ZoneIx == 1..Len(zones)

\* zones.find(z => z.id === zoneId): the index of the zone, 0 when absent.
findZone(zoneId) ==
  IF \E i \in ZoneIx : zones[i].id = zoneId
  THEN CHOOSE i \in ZoneIx : zones[i].id = zoneId
  ELSE 0

\* ------------------------------------------------------------------------
\* KickableObject (src/unnamed/part_003)
\* ------------------------------------------------------------------------
ObjectType == {"barrel", "box", "stone", "log"}

\* KickableObject.OBJECT_CONFIGS.  knockbackMultiplier is in tenths and
\* bounceDecay in hundredths.
OBJECT_CONFIGS ==
  [t \in ObjectType |->
     CASE t = "barrel" -> [weight |-> 50, health |-> 30, damage |-> 40,
                           knockbackMultiplier |-> 15, bounceDecay |-> 85]
       [] t = "box"    -> [weight |-> 20, health |-> 15, damage |-> 25,
                           knockbackMultiplier |-> 12, bounceDecay |-> 75]
       [] t = "stone"  -> [weight |-> 80, health |-> 50, damage |-> 60,
                           knockbackMultiplier |-> 20, bounceDecay |-> 95]
       [] t = "log"    -> [weight |-> 70, health |-> 40, damage |-> 45,
                           knockbackMultiplier |-> 18, bounceDecay |-> 88]]

\* Self-damage of a prop on impact (hitEnemy: this.takeDamage(5)).
ImpactSelfDamage == 5
\* hitEnemy: below this impact speed the prop stops flying.
ImpactStopSpeed == 50
\* update: below this speed the prop stops flying.
RestSpeed == 20

SpeedSq(v) == v[1] * v[1] + v[2] * v[2]

\* The state after the constructor.  breakEffects counts the calls of
\* playBreakEffect since construction or reset; spriteActive is the flag
\* that sprite.setActive sets; moved is what the last call of update added
\* to the sprite position (velocity * deltaTime / 1000), in thousandths.
KickableObject(t) ==
  [type |-> t,
   health |-> OBJECT_CONFIGS[t].health,
   maxHealth |-> OBJECT_CONFIGS[t].health,
   weight |-> OBJECT_CONFIGS[t].weight,
   bounceDecay |-> OBJECT_CONFIGS[t].bounceDecay,
   velocity |-> <<0, 0>>,
   isFlying |-> FALSE,
   isBroken |-> FALSE,
   breakEffectPlayed |-> FALSE,
   rotationSpeed |-> 0,
   spriteActive |-> TRUE,
   breakEffects |-> 0,
   moved |-> <<0, 0>>]

\* A kick that does not look at isBroken.
applyKick_Unguarded(o, forceX, forceY, characterKickForce, spin) ==
  [o EXCEPT !.velocity = << TDiv(forceX * 100 * characterKickForce, o.weight * 100),
                            TDiv(forceY * 100 * characterKickForce, o.weight * 100) >>,
            !.isFlying = TRUE,
            !.rotationSpeed = spin]

\* A kick that adds to the velocity the prop already has.
applyKick_Additive(o, forceX, forceY, characterKickForce, spin) ==
  IF o.isBroken THEN o
  ELSE [o EXCEPT !.velocity = << @[1] + TDiv(forceX * 100 * characterKickForce, o.weight * 100),
                                 @[2] + TDiv(forceY * 100 * characterKickForce, o.weight * 100) >>,
                 !.isFlying = TRUE,
                 !.rotationSpeed = spin]

\* applyKick(forceX, forceY, characterKickForce); spin is the value drawn
\* for rotationSpeed, in hundredths.
applyKick(o, forceX, forceY, characterKickForce, spin) ==
  IF o.isBroken THEN o
  ELSE [o EXCEPT !.velocity = << TDiv(forceX * 100 * characterKickForce, o.weight * 100),
                                 TDiv(forceY * 100 * characterKickForce, o.weight * 100) >>,
                 !.isFlying = TRUE,
                 !.rotationSpeed = spin]

breakObject(o) ==
  IF o.isBroken \/ o.breakEffectPlayed THEN o
  ELSE [o EXCEPT !.isBroken = TRUE,
                 !.breakEffectPlayed = TRUE,
                 !.isFlying = FALSE,
                 !.velocity = <<0, 0>>,
                 !.breakEffects = @ + 1,
                 !.spriteActive = FALSE]

\* Damage intake that does not look at isBroken.
KickableObject_takeDamage_Unguarded(o, amount) ==
  LET hurt == [o EXCEPT !.health = @ - amount]
  IN  IF hurt.health <= 0 THEN breakObject(hurt) ELSE hurt

KickableObject_takeDamage(o, amount) ==
  IF o.isBroken THEN o
  ELSE LET hurt == [o EXCEPT !.health = @ - amount]
       IN  IF hurt.health <= 0 THEN breakObject(hurt) ELSE hurt

\* An impact that reports no damage when it breaks the prop.
hitEnemy_BreakingHitMisses(o, enemyHasKnockback) ==
  IF o.isBroken \/ ~o.isFlying
  THEN [obj |-> o, damage |-> 0, knockback |-> NullVec]
  ELSE LET hurt == KickableObject_takeDamage(o, ImpactSelfDamage)
           kb == IF enemyHasKnockback
                 THEN << TDiv(hurt.velocity[1] * 5, 10), TDiv(hurt.velocity[2] * 5, 10) >>
                 ELSE NullVec
           slowed == [hurt EXCEPT !.velocity = << TDiv(hurt.velocity[1] * 7, 10),
                                                  TDiv(hurt.velocity[2] * 7, 10) >>]
           after == IF SpeedSq(hurt.velocity) < ImpactStopSpeed * ImpactStopSpeed
                    THEN [slowed EXCEPT !.isFlying = FALSE, !.velocity = <<0, 0>>]
                    ELSE slowed
       IN  [obj |-> after,
            damage |-> IF hurt.isBroken THEN 0 ELSE OBJECT_CONFIGS[o.type].damage,
            knockback |-> kb]

\* hitEnemy(enemy): the prop afterwards, the returned damage and the
\* knockback handed to the enemy (NullVec when applyKnockback is not called).
hitEnemy(o, enemyHasKnockback) ==
  IF o.isBroken \/ ~o.isFlying
  THEN [obj |-> o, damage |-> 0, knockback |-> NullVec]
  ELSE LET hurt == KickableObject_takeDamage(o, ImpactSelfDamage)
           impactSq == SpeedSq(hurt.velocity)
           kb == IF enemyHasKnockback
                 THEN << TDiv(hurt.velocity[1] * 5, 10), TDiv(hurt.velocity[2] * 5, 10) >>
                 ELSE NullVec
           slowed == [hurt EXCEPT !.velocity = << TDiv(hurt.velocity[1] * 7, 10),
                                                  TDiv(hurt.velocity[2] * 7, 10) >>]
           after == IF impactSq < ImpactStopSpeed * ImpactStopSpeed
                    THEN [slowed EXCEPT !.isFlying = FALSE, !.velocity = <<0, 0>>]
                    ELSE slowed
       IN  [obj |-> after, damage |-> OBJECT_CONFIGS[o.type].damage, knockback |-> kb]

\* update(deltaTime).  Of the sprite position only the displacement of this
\* call is kept; the rotation and the trail are read by nothing but the
\* renderer and are not kept.
\* An update that moves the prop and leaves the velocity as it was.
KickableObject_update_NoDecay(o, deltaTime) ==
  IF o.isBroken THEN [o EXCEPT !.moved = <<0, 0>>]
  ELSE IF o.isFlying
       THEN [o EXCEPT !.moved = << o.velocity[1] * deltaTime, o.velocity[2] * deltaTime >>]
       ELSE [o EXCEPT !.moved = <<0, 0>>]

KickableObject_update(o, deltaTime) ==
  IF o.isBroken THEN [o EXCEPT !.moved = <<0, 0>>]
  ELSE IF o.isFlying
       THEN LET decayed == [o EXCEPT !.moved = << o.velocity[1] * deltaTime,
                                                  o.velocity[2] * deltaTime >>,
                                     !.velocity = << TDiv(o.velocity[1] * o.bounceDecay, 100),
                                                     TDiv(o.velocity[2] * o.bounceDecay, 100) >>]
            IN  IF SpeedSq(decayed.velocity) < RestSpeed * RestSpeed
                THEN [decayed EXCEPT !.isFlying = FALSE,
                                     !.velocity = <<0, 0>>,
                                     !.rotationSpeed = 0]
                ELSE decayed
       ELSE [o EXCEPT !.moved = <<0, 0>>]

KickableObject_reset(o) ==
  [o EXCEPT !.spriteActive = FALSE,
            !.velocity = <<0, 0>>,
            !.isFlying = FALSE,
            !.isBroken = FALSE,
            !.breakEffectPlayed = FALSE,
            !.rotationSpeed = 0,
            !.health = o.maxHealth,
            !.breakEffects = 0]

\* ------------------------------------------------------------------------
\* Enemy (src/entities/Enemy.ts is not part of the sources at hand; the
\* little of it that the encounter and boss code rely on is taken from the
\* specification: a sprite with an active flag, a health, a dying flag that
\* is set when the health reaches 0, and reset on release to the pool)
\* ------------------------------------------------------------------------
\* Enemy.takeDamage(amount): the health afterwards and "wasDead".
Enemy_takeDamage(e, amount) ==
  IF e.isDying \/ e.health <= 0
  THEN [enemy |-> e, wasDead |-> FALSE]
  ELSE LET hurt == [e EXCEPT !.health = @ - amount]
       IN  IF hurt.health <= 0
           THEN [enemy |-> [hurt EXCEPT !.isDying = TRUE], wasDead |-> TRUE]
           ELSE [enemy |-> hurt, wasDead |-> FALSE]

\* Enemy.reset(): the sprite is deactivated and the fields that spawn sets
\* are cleared; fields that were attached to the instance from outside stay.
Enemy_reset(e) ==
  IF "position" \in DOMAIN e
  THEN [e EXCEPT !.spriteActive = FALSE, !.isDying = FALSE, !.health = 0, !.position = <<0, 0>>]
  ELSE [e EXCEPT !.spriteActive = FALSE, !.isDying = FALSE, !.health = 0]

\* ------------------------------------------------------------------------
\* Boss (src/unnamed/part_002)
\* ------------------------------------------------------------------------
\* enum BossAttack
BossAttack ==
  [BASIC_ATTACK |-> "basic_attack", SUMMON_SWARM |-> "summon_swarm",
   CHARGE_ATTACK |-> "charge_attack", BOMB_BARRAGE |-> "bomb_barrage",
   CHARGE_SLAM |-> "charge_slam", MEGA_BOMB |-> "mega_bomb",
   ICE_DASH |-> "ice_dash", FREEZE_WAVE |-> "freeze_wave",
   MEGA_FREEZE |-> "mega_freeze", TRIPLE_DASH |-> "triple_dash"]

\* enum MovementPattern
MovementPattern ==
  [STATIONARY |-> "stationary", CIRCLE |-> "circle", CHASE |-> "chase",
   AGGRESSIVE |-> "aggressive", BERSERKER |-> "berserker",
   SWIMMING |-> "swimming", AGGRESSIVE_SWIM |-> "aggressive_swim",
   FRENZY |-> "frenzy"]

\* public attackCooldown: number = 2000
DefaultAttackCooldown == 2000
\* updateSwimmingMovement: the heading is refreshed when swimTimer > 2000.
SwimRefreshMs == 2000
\* executeChargeAttack: telegraph, then the time the charge is sustained.
ChargeTelegraphMs == 1000
ChargeSustainMs == 500
\* executeTripleDash: spacing of the three dashes.
TripleDashGapMs == 800

\* new Boss(scene, bossConfig).  The phase index is 0-based as in the
\* source.  speedPct is this.speed in percent of the speed that spawn
\* gives.  lastMove names the movement routine the last update dispatched
\* to and lastAttack the ability it handed to executeAttack together with
\* the routine that ran; attacked tells whether the last update handed an
\* ability to executeAttack at all, lastDispatch is the time of the last
\* update since the reset that did and prevDispatch the time of the one
\* before it, 0 for none; the sprite position
\* that the routines write is not kept.  pending holds the delayed callbacks that captured
\* this boss.
Boss(bossConfig) ==
  [bossConfig |-> bossConfig,
   health |-> 0,
   maxHealth |-> 0,
   isDying |-> FALSE,
   spriteActive |-> FALSE,
   speedPct |-> 100,
   currentPhase |-> 0,
   lastAttackTime |-> 0,
   attackCooldown |-> DefaultAttackCooldown,
   isCharging |-> FALSE,
   chargeTarget |-> NullVec,
   swimDirection |-> "east",
   swimTimer |-> 0,
   lastMove |-> "none",
   lastAttack |-> [ability |-> Null, routine |-> Null],
   attacked |-> FALSE,
   lastDispatch |-> 0,
   prevDispatch |-> 0,
   uiAlive |-> TRUE,
   pending |-> << >>]

\* spawn(x, y, enemyType)
Boss_spawn(b) ==
  [b EXCEPT !.spriteActive = TRUE,
            !.isDying = FALSE,
            !.speedPct = 100,
            !.health = b.bossConfig.health,
            !.maxHealth = b.bossConfig.health,
            !.currentPhase = 0]

\* bossConfig.phases[i] for the 0-based index i.
PhaseAt(b, i) == b.bossConfig.phases[i + 1]

enterNextPhase(b, now) ==
  LET newPhase == PhaseAt(b, b.currentPhase + 1)
      adv == [b EXCEPT !.currentPhase = @ + 1,
                       !.lastAttackTime = now - b.attackCooldown]
  IN  CASE newPhase.movementPattern = "berserker" ->
             [adv EXCEPT !.speedPct = TDiv(@ * 3, 2)]
        [] newPhase.movementPattern = "frenzy" ->
             [adv EXCEPT !.attackCooldown = TDiv(@, 2)]
        [] OTHER -> adv

\* The comparison with the boundary left out.
HealthAtMost_Strict(b, threshold) ==
  IF b.maxHealth = 0 THEN b.health < 0
  ELSE b.health * 100 < threshold * b.maxHealth

\* healthPercent <= healthThreshold for healthPercent = health / maxHealth,
\* thresholds in percent.  With maxHealth = 0 the quotient is NaN or an
\* infinity, and the comparison holds for -Infinity only.
HealthAtMost(b, threshold) ==
  IF b.maxHealth = 0 THEN b.health < 0
  ELSE b.health * 100 <= threshold * b.maxHealth

\* A phase check that falls back to the first phase while the health is
\* above the next threshold.
checkPhaseTransition_Recomputed(b, now) ==
  IF b.currentPhase < Len(b.bossConfig.phases) - 1
  THEN IF HealthAtMost(b, PhaseAt(b, b.currentPhase + 1).healthThreshold)
       THEN enterNextPhase(b, now)
       ELSE [b EXCEPT !.currentPhase = 0]
  ELSE b

\* A phase check that goes on entering phases as long as the health allows.
RECURSIVE checkPhaseTransition_Repeated(_, _)
checkPhaseTransition_Repeated(b, now) ==
  IF b.currentPhase < Len(b.bossConfig.phases) - 1
  THEN IF HealthAtMost(b, PhaseAt(b, b.currentPhase + 1).healthThreshold)
       THEN checkPhaseTransition_Repeated(enterNextPhase(b, now), now)
       ELSE b
  ELSE b

checkPhaseTransition(b, now) ==
  IF b.currentPhase < Len(b.bossConfig.phases) - 1
  THEN IF HealthAtMost(b, PhaseAt(b, b.currentPhase + 1).healthThreshold)
       THEN enterNextPhase(b, now)
       ELSE b
  ELSE b

\* updateSwimmingMovement(deltaTime, playerPos, aggressive)
updateSwimmingMovement(b, deltaTime, aggressive) ==
  LET timer == b.swimTimer + deltaTime
  IN  IF timer > SwimRefreshMs
      THEN [b EXCEPT !.swimDirection = IF aggressive THEN "player" ELSE "random",
                     !.swimTimer = 0]
      ELSE [b EXCEPT !.swimTimer = timer]

\* updateBossMovement(deltaTime, playerPos): the switch over the enum
\* MovementPattern, applied to the pattern string of the current phase.
updateBossMovement(b, deltaTime, playerPos) ==
  IF b.isDying \/ b.isCharging THEN [b EXCEPT !.lastMove = "skipped"]
  ELSE LET pattern == PhaseAt(b, b.currentPhase).movementPattern
       IN  CASE pattern = MovementPattern.STATIONARY -> [b EXCEPT !.lastMove = "stationary"]
             [] pattern = MovementPattern.CIRCLE -> [b EXCEPT !.lastMove = "circle"]
             [] pattern = MovementPattern.CHASE -> [b EXCEPT !.lastMove = "chase"]
             [] pattern = MovementPattern.AGGRESSIVE -> [b EXCEPT !.lastMove = "aggressive"]
             [] pattern = MovementPattern.BERSERKER -> [b EXCEPT !.lastMove = "berserker"]
             [] pattern = MovementPattern.SWIMMING ->
                  [updateSwimmingMovement(b, deltaTime, FALSE) EXCEPT !.lastMove = "swimming"]
             [] pattern = MovementPattern.AGGRESSIVE_SWIM ->
                  [updateSwimmingMovement(b, deltaTime, TRUE) EXCEPT !.lastMove = "aggressive_swim"]
             [] pattern = MovementPattern.FRENZY -> [b EXCEPT !.lastMove = "frenzy"]
             [] OTHER -> [b EXCEPT !.lastMove = "unmatched"]

\* scene.time.delayedCall(delay, callback) for a callback of this boss.
Delayed(b, now, delay, kind, arg) ==
  [b EXCEPT !.pending = Append(@, [kind |-> kind, due |-> now + delay, arg |-> arg])]

executeChargeAttack(b, playerPos, now) ==
  Delayed([b EXCEPT !.chargeTarget = playerPos, !.isCharging = TRUE],
          now, ChargeTelegraphMs, "chargeImpulse", Null)

RECURSIVE BombsFrom(_, _, _, _)
BombsFrom(b, now, playerPos, i) ==
  IF i >= 5 THEN b
  ELSE BombsFrom(Delayed(b, now, i * 300, "bombWarning", i), now, playerPos, i + 1)

executeBombBarrage(b, playerPos, now) == BombsFrom(b, now, playerPos, 0)

executeChargeSlam(b, playerPos, now) ==
  Delayed(executeChargeAttack(b, playerPos, now), now, 1500, "slam", Null)

executeMegaBomb(b, playerPos, now) == Delayed(b, now, 1500, "megaBomb", Null)

executeIceDash(b, playerPos, now) == executeChargeAttack(b, playerPos, now)

executeMegaFreeze(b, playerPos, now) == Delayed(b, now, 1200, "megaFreeze", Null)

executeTripleDash(b, playerPos, now) ==
  Delayed(Delayed(Delayed(b, now, 0, "dash", playerPos),
                  now, TripleDashGapMs, "dash", playerPos),
          now, 2 * TripleDashGapMs, "dash", playerPos)

\* executeAttack(attack, playerPos): the switch over the enum BossAttack,
\* applied to the ability string taken from the phase.
executeAttack(b, attack, playerPos, now) ==
  LET ran(r, nb) == [nb EXCEPT !.lastAttack = [ability |-> attack, routine |-> r]]
  IN  CASE attack = BossAttack.SUMMON_SWARM -> ran("executeSummonSwarm", b)
        [] attack = BossAttack.CHARGE_ATTACK ->
             ran("executeChargeAttack", executeChargeAttack(b, playerPos, now))
        [] attack = BossAttack.BOMB_BARRAGE ->
             ran("executeBombBarrage", executeBombBarrage(b, playerPos, now))
        [] attack = BossAttack.CHARGE_SLAM ->
             ran("executeChargeSlam", executeChargeSlam(b, playerPos, now))
        [] attack = BossAttack.MEGA_BOMB ->
             ran("executeMegaBomb", executeMegaBomb(b, playerPos, now))
        [] attack = BossAttack.ICE_DASH ->
             ran("executeIceDash", executeIceDash(b, playerPos, now))
        [] attack = BossAttack.FREEZE_WAVE -> ran("executeFreezeWave", b)
        [] attack = BossAttack.MEGA_FREEZE ->
             ran("executeMegaFreeze", executeMegaFreeze(b, playerPos, now))
        [] attack = BossAttack.TRIPLE_DASH ->
             ran("executeTripleDash", executeTripleDash(b, playerPos, now))
        [] OTHER -> ran(Null, b)

\* An attack step that does not wait for the cooldown.
updateBossAttacks_NoCooldown(b, playerPos, now, pick) ==
  LET availableAttacks == PhaseAt(b, b.currentPhase).abilities
  IN  IF Len(availableAttacks) = 0 THEN [b EXCEPT !.attacked = FALSE]
      ELSE [executeAttack(b, availableAttacks[1 + (pick % Len(availableAttacks))],
                          playerPos, now)
              EXCEPT !.lastAttackTime = now, !.attacked = TRUE, !.lastDispatch = now,
                     !.prevDispatch = b.lastDispatch]

\* updateBossAttacks(deltaTime, playerPos); now is Date.now() and pick the
\* index that Math.floor(Math.random() * availableAttacks.length) yields.
updateBossAttacks(b, playerPos, now, pick) ==
  IF now - b.lastAttackTime < b.attackCooldown THEN [b EXCEPT !.attacked = FALSE]
  ELSE LET availableAttacks == PhaseAt(b, b.currentPhase).abilities
       IN  IF Len(availableAttacks) = 0 THEN [b EXCEPT !.attacked = FALSE]
           ELSE [executeAttack(b, availableAttacks[1 + (pick % Len(availableAttacks))],
                               playerPos, now)
                   EXCEPT !.lastAttackTime = now, !.attacked = TRUE, !.lastDispatch = now,
                          !.prevDispatch = b.lastDispatch]

\* update(deltaTime, playerPos)
Boss_update(b, deltaTime, playerPos, now, pick) ==
  updateBossAttacks(
    updateBossMovement(checkPhaseTransition(b, now), deltaTime, playerPos),
    playerPos, now, pick)

cleanupBossUI(b) == [b EXCEPT !.uiAlive = FALSE]

\* takeDamage(amount): the boss afterwards and the value returned.
Boss_takeDamage(b, amount) ==
  LET r == Enemy_takeDamage(b, amount)
  IN  [enemy |-> IF r.wasDead THEN cleanupBossUI(r.enemy) ELSE r.enemy,
       wasDead |-> r.wasDead]

\* reset()
Boss_reset(b) ==
  [cleanupBossUI(Enemy_reset(b))
     EXCEPT !.currentPhase = 0,
            !.lastAttackTime = 0,
            !.lastDispatch = 0,
            !.prevDispatch = 0,
            !.chargeTarget = NullVec,
            !.isCharging = FALSE,
            !.swimDirection = "east",
            !.swimTimer = 0,
            !.attackCooldown = DefaultAttackCooldown]

\* Callbacks whose telegraph schedules no clearing of the charge.
runCallback_NoClear(b, k, now) ==
  LET cb == b.pending[k]
      rest == [b EXCEPT !.pending = [i \in 1..(Len(@) - 1) |-> IF i < k THEN @[i] ELSE @[i + 1]]]
  IN  CASE cb.kind = "chargeClear" ->
             [rest EXCEPT !.isCharging = FALSE, !.chargeTarget = NullVec]
        [] cb.kind = "dash" -> executeChargeAttack(rest, cb.arg, now)
        [] cb.kind = "bombWarning" -> Delayed(rest, now, 800, "bombExplode", cb.arg)
        [] OTHER -> rest

\* A delayed callback of the boss runs: the boss afterwards.  k is its
\* position in pending.
runCallback(b, k, now) ==
  LET cb == b.pending[k]
      rest == [b EXCEPT !.pending = [i \in 1..(Len(@) - 1) |-> IF i < k THEN @[i] ELSE @[i + 1]]]
  IN  CASE cb.kind = "chargeImpulse" ->
             IF rest.chargeTarget # NullVec
             THEN Delayed(rest, now, ChargeSustainMs, "chargeClear", Null)
             ELSE rest
        [] cb.kind = "chargeClear" ->
             [rest EXCEPT !.isCharging = FALSE, !.chargeTarget = NullVec]
        [] cb.kind = "dash" -> executeChargeAttack(rest, cb.arg, now)
        [] cb.kind = "bombWarning" -> Delayed(rest, now, 800, "bombExplode", cb.arg)
        [] OTHER -> rest

\* ------------------------------------------------------------------------
\* Enemy pool (src/managers/PoolManager.ts and src/config/enemyTypes.ts are
\* not part of the sources at hand; acquire / release / reset follow the
\* pooling protocol of the specification)
\* ------------------------------------------------------------------------
\* The largest number of enemy placements of a zone: the pool slots in use.
MaxPlacements == Len(zones[3].enemies)
PoolSlots == 1..MaxPlacements

\* Health that Enemy.spawn gives a regular enemy.
EnemyHealth == 100
\* enemy.speed * 0.5 * (1/60): the distance a patrolling enemy covers in one
\* update.
PatrolStep == 200

\* An enemy instance as the factory () => new Enemy(scene) leaves it.  The
\* fields hasAggro, movementType and patrolIndex are the properties that
\* loadZone attaches to the instance.
NewEnemy ==
  [spriteActive |-> FALSE, health |-> 0, isDying |-> FALSE, position |-> <<0, 0>>,
   hasAggro |-> FALSE, movementType |-> Null, patrolIndex |-> 0, pooled |-> TRUE]

\* PoolManager.release(enemy): the reset function runs and the instance is
\* free again.
release(slots, k) == [slots EXCEPT ![k] = [Enemy_reset(@) EXCEPT !.pooled = TRUE]]

\* Enemy.spawn(x, y, enemyType)
Enemy_spawn(e, pos) ==
  [e EXCEPT !.spriteActive = TRUE, !.health = EnemyHealth, !.isDying = FALSE,
            !.position = pos, !.movementType = "type-default"]

\* ------------------------------------------------------------------------
\* EncounterSystem (src/unnamed/part_001)
\* ------------------------------------------------------------------------
\* this.currentBoss.update(16, playerPos) and obj.update(16)
FixedDeltaMs == 16

\* The operators below work on a record es of the fields of the
\* EncounterSystem and of the objects it holds:
\*   isUnlocked[z]      zones[z].isUnlocked
\*   enemyState[z][i]   zones[z].enemies[i].state
\*   enemyRef[z][i]     zones[z].enemies[i].enemy, a pool slot, 0 = undefined
\*   objectRef[z][i]    zones[z].kickableObjects[i].object is set
\*   currentZone        index of the current zone, 0 = null
\*   activeEnemies      map from keys <<z, i>> to pool slots
\*   activeObjects      map from keys <<z, i>> to props
\*   currentBoss, isBossFight
\*   slots              the Enemy instances of the pool
\*   trace              the operation in progress, the player position it was
\*                      given, and what it has done so far: defeat handling
\*                      ran, a boss fight was started, the boss was stepped,
\*                      the calls of unlockCharacterByBoss, the pool slots
\*                      released, the number of props destroyed, and the
\*                      placements that triggerAggro and loseAggro ran for,
\*                      the zones whose isUnlocked went from false to true,
\*                      and the number of calls of enemyPool.release

NoTrace ==
  [op |-> "none", playerPos |-> NullVec, defeated |-> FALSE, started |-> FALSE,
   bossStepped |-> FALSE, unlockCalls |-> << >>, released |-> {}, destroyed |-> 0,
   aggroed |-> {}, calmed |-> {}, unlocked |-> {}, releaseCalls |-> 0]

EmptyMap == [k \in {} |-> 0]

MapPut(m, k, v) == [x \in (DOMAIN m) \cup {k} |-> IF x = k THEN v ELSE m[x]]

MapDrop(m, ks) == [x \in (DOMAIN m) \ ks |-> m[x]]

\* An unload that releases the enemies and leaves the props in place.
clearCurrentZone_KeepsProps(es) ==
  LET ks == DOMAIN es.activeEnemies
      freed == {es.activeEnemies[k] : k \in ks}
  IN  [es EXCEPT
         !.slots = [k \in PoolSlots |-> IF k \in freed THEN release(es.slots, k)[k] ELSE @[k]],
         !.activeEnemies = EmptyMap,
         !.currentZone = 0,
         !.trace = [@ EXCEPT !.released = @ \cup freed]]

clearCurrentZone(es) ==
  LET ks == DOMAIN es.activeEnemies
      freed == {es.activeEnemies[k] : k \in ks}
  IN  [es EXCEPT
         !.slots = [k \in PoolSlots |-> IF k \in freed THEN release(es.slots, k)[k] ELSE @[k]],
         !.activeEnemies = EmptyMap,
         !.activeObjects = EmptyMap,
         !.currentZone = 0,
         !.trace = [@ EXCEPT !.released = @ \cup freed,
                             !.releaseCalls = @ + Cardinality(ks),
                             !.destroyed = @ + Cardinality(DOMAIN es.activeObjects)]]

\* The body of zone.enemies.forEach in loadZone for the placement i.
spawnPlacement(es, z, i) ==
  LET enemyConfig == zones[z].enemies[i]
      k == CHOOSE s \in PoolSlots :
             es.slots[s].pooled /\ \A j \in PoolSlots : es.slots[j].pooled => s <= j
      tagged == [es.slots[k] EXCEPT !.pooled = FALSE, !.patrolIndex = 0, !.hasAggro = FALSE]
      spawned == Enemy_spawn(tagged, enemyConfig.position)
      st == es.enemyState[z][i]
      moved == CASE st = STATIONARY -> [spawned EXCEPT !.movementType = "stationary"]
                 [] st = PATROLLING -> [spawned EXCEPT !.movementType = "patrol"]
                 [] OTHER -> spawned
  IN  [es EXCEPT !.slots[k] = moved,
                 !.enemyRef[z][i] = k,
                 !.activeEnemies = MapPut(@, <<z, i>>, k)]

RECURSIVE spawnEnemiesFrom(_, _, _)
spawnEnemiesFrom(es, z, i) ==
  IF i > Len(zones[z].enemies) THEN es
  ELSE spawnEnemiesFrom(spawnPlacement(es, z, i), z, i + 1)

\* The body of zone.kickableObjects.forEach in loadZone, for all placements.
spawnObjects(es, z) ==
  LET created == {<<z, i>> : i \in DOMAIN zones[z].kickableObjects}
  IN  [es EXCEPT !.objectRef[z] = [i \in DOMAIN zones[z].kickableObjects |-> TRUE],
                 !.activeObjects = [k \in (DOMAIN @) \cup created |->
                                      IF k \in created
                                      THEN KickableObject(zones[z].kickableObjects[k[2]])
                                      ELSE @[k]]]

\* A load that does not look at isUnlocked.
LoadZone_IgnoresLock(es, zoneId) ==
  LET z == findZone(zoneId)
  IN  IF z = 0 THEN es
      ELSE spawnObjects(
             spawnEnemiesFrom([clearCurrentZone(es) EXCEPT !.currentZone = z], z, 1), z)

LoadZone(es, zoneId) ==
  LET z == findZone(zoneId)
  IN  IF z = 0 \/ ~es.isUnlocked[z] THEN es
      ELSE spawnObjects(
             spawnEnemiesFrom([clearCurrentZone(es) EXCEPT !.currentZone = z], z, 1), z)

UnlockZone(es, zoneId) ==
  LET z == findZone(zoneId)
  IN  IF z # 0
      THEN [es EXCEPT !.isUnlocked[z] = TRUE,
                      !.trace.unlocked = IF es.isUnlocked[z] THEN @ ELSE @ \cup {z}]
      ELSE es

\* An aggro trigger that takes the placement to Combat.
triggerAggro_EntersCombat(es, z, i) ==
  LET k == es.enemyRef[z][i]
  IN  [es EXCEPT !.slots[k] = [@ EXCEPT !.hasAggro = TRUE, !.movementType = "homing"],
                 !.enemyState[z][i] = "combat",
                 !.trace.aggroed = @ \cup {i}]

triggerAggro(es, z, i) ==
  LET k == es.enemyRef[z][i]
  IN  [es EXCEPT !.slots[k] = [@ EXCEPT !.hasAggro = TRUE, !.movementType = "homing"],
                 !.enemyState[z][i] = AGGROED,
                 !.trace.aggroed = @ \cup {i}]

\* A de-aggro that returns every placement to Stationary.
loseAggro_AlwaysStationary(es, z, i) ==
  LET k == es.enemyRef[z][i]
  IN  [es EXCEPT !.slots[k] = [@ EXCEPT !.hasAggro = FALSE, !.movementType = "stationary"],
                 !.enemyState[z][i] = STATIONARY,
                 !.trace.calmed = @ \cup {i}]

loseAggro(es, z, i) ==
  LET k == es.enemyRef[z][i]
      hasPath == zones[z].enemies[i].patrolPath # NoPath
  IN  [es EXCEPT !.slots[k] = [@ EXCEPT !.hasAggro = FALSE,
                                        !.movementType = IF hasPath THEN "patrol" ELSE "stationary"],
                 !.enemyState[z][i] = IF hasPath THEN PATROLLING ELSE STATIONARY,
                 !.trace.calmed = @ \cup {i}]

updatePatrol(es, z, i) ==
  LET path == zones[z].enemies[i].patrolPath
      k == es.enemyRef[z][i]
      e == es.slots[k]
  IN  IF Len(path) = 0 THEN es
      ELSE LET patrolIndex == e.patrolIndex
               targetPos == path[patrolIndex + 1]
               dSq == DistSq(e.position, targetPos)
               nextIndex == IF dSq < 20 * 20 THEN (patrolIndex + 1) % Len(path) ELSE patrolIndex
               dx == targetPos[1] - e.position[1]
               dy == targetPos[2] - e.position[2]
               newPos == IF dSq > 5 * 5
                         THEN << e.position[1] + TDiv(dx * PatrolStep, SqrtBetween(dSq, 0, 4096)),
                                 e.position[2] + TDiv(dy * PatrolStep, SqrtBetween(dSq, 0, 4096)) >>
                         ELSE e.position
           IN  [es EXCEPT !.slots[k] = [@ EXCEPT !.patrolIndex = nextIndex,
                                                 !.position = newPos]]

\* The aggro test with the boundary left out.
WithinAggro_Exclusive(enemyPos, playerPos, aggroRange) ==
  DistSq(enemyPos, playerPos) < aggroRange * aggroRange

\* distanceToPlayer <= aggroRange
WithinAggro(enemyPos, playerPos, aggroRange) ==
  DistSq(enemyPos, playerPos) <= aggroRange * aggroRange

\* The de-aggro test without the hysteresis band.
BeyondHysteresis_NoBand(enemyPos, playerPos, aggroRange) ==
  DistSq(enemyPos, playerPos) > aggroRange * aggroRange

\* distanceToPlayer > aggroRange * 1.5
BeyondHysteresis(enemyPos, playerPos, aggroRange) ==
  4 * DistSq(enemyPos, playerPos) > 9 * aggroRange * aggroRange

updateEnemyAggro(es, z, i, playerPos) ==
  LET k == es.enemyRef[z][i]
      enemyPos == es.slots[k].position
      aggroRange == zones[z].enemies[i].aggroRadius
      hasAggro == es.slots[k].hasAggro
      st == es.enemyState[z][i]
  IN  CASE st = STATIONARY ->
             IF WithinAggro(enemyPos, playerPos, aggroRange) /\ ~hasAggro
             THEN triggerAggro(es, z, i) ELSE es
        [] st = PATROLLING ->
             IF WithinAggro(enemyPos, playerPos, aggroRange) /\ ~hasAggro
             THEN triggerAggro(es, z, i)
             ELSE IF ~hasAggro THEN updatePatrol(es, z, i) ELSE es
        [] st = AGGROED ->
             IF BeyondHysteresis(enemyPos, playerPos, aggroRange)
             THEN loseAggro(es, z, i)
             ELSE [es EXCEPT !.slots[k].movementType = "homing"]
        [] OTHER -> es

\* this.currentZone.enemies.forEach(...) of update, from placement i on.
RECURSIVE aggroFrom(_, _, _, _)
aggroFrom(es, z, i, playerPos) ==
  IF i > Len(zones[z].enemies) THEN es
  ELSE LET k == es.enemyRef[z][i]
           stepped == IF k = 0 \/ ~es.slots[k].spriteActive THEN es
                      ELSE updateEnemyAggro(es, z, i, playerPos)
       IN  aggroFrom(stepped, z, i + 1, playerPos)

\* A fight start that leaves the regular enemies in place.
startBossFight_KeepsEnemies(es) ==
  IF es.currentZone = 0 THEN es
  ELSE [es EXCEPT
          !.currentBoss = Boss_spawn(Boss(zones[es.currentZone].boss)),
          !.isBossFight = TRUE,
          !.trace = [@ EXCEPT !.started = TRUE]]

startBossFight(es) ==
  IF es.currentZone = 0 THEN es
  ELSE LET freed == {es.activeEnemies[k] : k \in DOMAIN es.activeEnemies}
       IN  [es EXCEPT
              !.slots = [k \in PoolSlots |-> IF k \in freed THEN release(es.slots, k)[k] ELSE @[k]],
              !.activeEnemies = EmptyMap,
              !.currentBoss = Boss_spawn(Boss(zones[es.currentZone].boss)),
              !.isBossFight = TRUE,
              !.trace = [@ EXCEPT !.started = TRUE,
                                  !.released = @ \cup freed,
                                  !.releaseCalls = @ + Cardinality(DOMAIN es.activeEnemies)]]

\* Unlocking that leaves a zone with required characters locked.
unlockNextZone_RequiresCharacters(es) ==
  LET currentZoneIndex == es.currentZone
  IN  IF /\ currentZoneIndex # 0
         /\ currentZoneIndex < Len(zones)
         /\ zones[currentZoneIndex + 1].requiredCharacters = {}
      THEN [es EXCEPT !.isUnlocked[currentZoneIndex + 1] = TRUE,
                      !.trace.unlocked = IF es.isUnlocked[currentZoneIndex + 1]
                                         THEN @ ELSE @ \cup {currentZoneIndex + 1}]
      ELSE es

unlockNextZone_SkipsOne(es) ==
  LET currentZoneIndex == es.currentZone
  IN  IF currentZoneIndex # 0 /\ currentZoneIndex + 1 < Len(zones)
      THEN [es EXCEPT !.isUnlocked[currentZoneIndex + 2] = TRUE,
                      !.trace.unlocked = @ \cup {currentZoneIndex + 2}]
      ELSE es

unlockNextZone(es) ==
  LET currentZoneIndex == es.currentZone
  IN  IF currentZoneIndex # 0 /\ currentZoneIndex < Len(zones)
      THEN [es EXCEPT !.isUnlocked[currentZoneIndex + 1] = TRUE,
                      !.trace.unlocked = IF es.isUnlocked[currentZoneIndex + 1]
                                         THEN @ ELSE @ \cup {currentZoneIndex + 1}]
      ELSE es

\* Defeat handling that drops the boss and forgets the flag.
onBossDefeated_StaleFlag(es) ==
  IF es.currentBoss = NullRef \/ es.currentZone = 0 THEN es
  ELSE [unlockNextZone(es) EXCEPT
          !.currentBoss = NullRef,
          !.trace = [@ EXCEPT !.defeated = TRUE,
                              !.unlockCalls = Append(@, zones[es.currentZone].boss.type)]]

onBossDefeated(es) ==
  IF es.currentBoss = NullRef \/ es.currentZone = 0 THEN es
  ELSE [unlockNextZone(es) EXCEPT
          !.currentBoss = NullRef,
          !.isBossFight = FALSE,
          !.trace = [@ EXCEPT !.defeated = TRUE,
                              !.unlockCalls = Append(@, zones[es.currentZone].boss.type)]]

\* The arena test with the boundary left out.
InArena_Exclusive(playerPos, bossConfig) ==
  DistSq(playerPos, bossConfig.position) < bossConfig.arenaRadius * bossConfig.arenaRadius

\* distanceToBoss <= this.currentZone.boss.arenaRadius
InArena(playerPos, bossConfig) ==
  DistSq(playerPos, bossConfig.position) <= bossConfig.arenaRadius * bossConfig.arenaRadius

\* "Update boss if active" of update.
bossStep(es, currentTime, playerPos, now, pick) ==
  IF es.currentBoss # NullRef /\ es.currentBoss.spriteActive
  THEN LET stepped == [es EXCEPT !.currentBoss = Boss_update(@, FixedDeltaMs, playerPos, now, pick),
                                 !.trace.bossStepped = TRUE]
       IN  IF stepped.currentBoss.health <= 0 /\ stepped.currentBoss.isDying
           THEN onBossDefeated(stepped)
           ELSE stepped
  ELSE es

\* Props stepped with the time the caller passed.
objectsStep_CallerTime(es, currentTime) ==
  [es EXCEPT !.activeObjects = [k \in DOMAIN @ |-> KickableObject_update(@[k], currentTime)]]

\* "Update all kickable objects" of update.
objectsStep(es, currentTime) ==
  [es EXCEPT !.activeObjects = [k \in DOMAIN @ |-> KickableObject_update(@[k], FixedDeltaMs)]]

\* "Only update regular enemies if not in boss fight" of update.
enemiesStep(es, playerPos) ==
  IF ~es.isBossFight
  THEN LET z == es.currentZone
           aggroed == aggroFrom(es, z, 1, playerPos)
       IN  IF aggroed.currentBoss = NullRef /\ InArena(playerPos, zones[z].boss)
           THEN startBossFight(aggroed)
           ELSE aggroed
  ELSE es

\* A sweep that drops the dead enemies without handing them to the pool.
sweep_DropsWithoutRelease(es) ==
  LET deadEnemies == {k \in DOMAIN es.activeEnemies :
                        LET e == es.slots[es.activeEnemies[k]]
                        IN  e.spriteActive /\ e.health <= 0 /\ ~e.isDying}
      brokenObjects == {k \in DOMAIN es.activeObjects : es.activeObjects[k].isBroken}
  IN  [es EXCEPT
         !.activeEnemies = MapDrop(@, deadEnemies),
         !.activeObjects = MapDrop(@, brokenObjects),
         !.trace = [@ EXCEPT !.destroyed = @ + Cardinality(brokenObjects)]]

\* "Clean up dead enemies" and "Clean up broken objects" of update.
\* A sweep that destroys the broken props and keeps them in the collection.
sweep_KeepsBroken(es) ==
  LET deadEnemies == {k \in DOMAIN es.activeEnemies :
                        LET e == es.slots[es.activeEnemies[k]]
                        IN  e.spriteActive /\ e.health <= 0 /\ ~e.isDying}
      freed == {es.activeEnemies[k] : k \in deadEnemies}
      brokenObjects == {k \in DOMAIN es.activeObjects : es.activeObjects[k].isBroken}
  IN  [es EXCEPT
         !.slots = [k \in PoolSlots |-> IF k \in freed THEN release(es.slots, k)[k] ELSE @[k]],
         !.activeEnemies = MapDrop(@, deadEnemies),
         !.trace = [@ EXCEPT !.released = @ \cup freed,
                             !.releaseCalls = @ + Cardinality(deadEnemies),
                             !.destroyed = @ + Cardinality(brokenObjects)]]

sweep(es) ==
  LET deadEnemies == {k \in DOMAIN es.activeEnemies :
                        LET e == es.slots[es.activeEnemies[k]]
                        IN  e.spriteActive /\ e.health <= 0 /\ ~e.isDying}
      freed == {es.activeEnemies[k] : k \in deadEnemies}
      brokenObjects == {k \in DOMAIN es.activeObjects : es.activeObjects[k].isBroken}
  IN  [es EXCEPT
         !.slots = [k \in PoolSlots |-> IF k \in freed THEN release(es.slots, k)[k] ELSE @[k]],
         !.activeEnemies = MapDrop(@, deadEnemies),
         !.activeObjects = MapDrop(@, brokenObjects),
         !.trace = [@ EXCEPT !.released = @ \cup freed,
                             !.releaseCalls = @ + Cardinality(deadEnemies),
                             !.destroyed = @ + Cardinality(brokenObjects)]]

\* update(currentTime, playerPos)
Update(es, currentTime, playerPos, now, pick) ==
  IF es.currentZone = 0 THEN es
  ELSE sweep(enemiesStep(objectsStep(bossStep(es, currentTime, playerPos, now, pick),
                                     currentTime),
                         playerPos))

\* A reset that forgets the boss.
Reset_KeepsBoss(es) == clearCurrentZone(es)

\* reset()
Reset(es) ==
  LET cleared == clearCurrentZone(es)
  IN  [cleared EXCEPT !.currentBoss = NullRef,
                      !.isBossFight = FALSE,
                      !.activeObjects = EmptyMap]

\* getActiveEnemies(): the regular enemies with an active sprite, and the
\* boss while its sprite is active.
getActiveEnemies(es) ==
  {<<"enemy", es.activeEnemies[k]>> :
      k \in {x \in DOMAIN es.activeEnemies : es.slots[es.activeEnemies[x]].spriteActive}}
  \cup (IF es.currentBoss # NullRef /\ es.currentBoss.spriteActive THEN {<<"boss", 0>>} ELSE {})

getBoss(es) == es.currentBoss

isBossActive(es) == es.isBossFight /\ es.currentBoss # NullRef

\* ------------------------------------------------------------------------
\* Character and CharacterManager (src/entities/Character.ts, kept in
\* src/src/entities/__tests__/KickableObject.test.ts from line 949 on)
\* ------------------------------------------------------------------------
\* A CharacterAbility: its id and cooldown.
Ability(id, cooldown) == [id |-> id, cooldown |-> cooldown]

\* A CharacterConfig: id, specialAbilities and the isUnlocked it is declared
\* with.
CharacterConfig(id, abilities, unlocked) ==
  [id |-> id, specialAbilities |-> abilities, isUnlocked |-> unlocked]

ITALIAN_BRAINROT_CHARACTERS ==
  << CharacterConfig("br-br-patapim",
       << Ability("tree-root-slam", 8000), Ability("monkey-fury", 12000) >>, TRUE),
     CharacterConfig("chimpanzini-bananini",
       << Ability("banana-split-kick", 6000), Ability("indestructible-charge", 15000) >>, FALSE),
     CharacterConfig("bombardiro-crocodilo",
       << Ability("bomb-kick", 10000), Ability("carpet-bombing", 18000) >>, FALSE),
     CharacterConfig("tralalero-tralala",
       << Ability("tidal-wave-kick", 8000), Ability("nike-speed-boost", 12000) >>, FALSE),
     CharacterConfig("cappuccino-assassino",
       << Ability("stealth-kick", 10000), Ability("caffeine-rush", 15000) >>, FALSE),
     CharacterConfig("lirili-larila",
       << Ability("time-slow-kick", 12000), Ability("temporal-shockwave", 16000) >>, FALSE) >>

CharacterIx == DOMAIN ITALIAN_BRAINROT_CHARACTERS


\* ITALIAN_BRAINROT_CHARACTERS.find(c => c.id === characterId): the index,
\* 0 for undefined.
findCharacter(characterId) ==
  IF \E c \in CharacterIx : ITALIAN_BRAINROT_CHARACTERS[c].id = characterId
  THEN CHOOSE c \in CharacterIx :
         /\ ITALIAN_BRAINROT_CHARACTERS[c].id = characterId
         /\ \A d \in CharacterIx : ITALIAN_BRAINROT_CHARACTERS[d].id = characterId => c <= d
  ELSE 0

\* new Character(config): config is kept as the index into the catalog,
\* lastAbilityUse is the Map from ability ids to times; returned is what the
\* last call of useAbility returned (an ability id, or Null).
Character(c) == [config |-> c, lastAbilityUse |-> EmptyMap, returned |-> Null]

\* getAbility(abilityId): the index into specialAbilities, 0 for undefined.
getAbility(ch, abilityId) ==
  LET abilities == ITALIAN_BRAINROT_CHARACTERS[ch.config].specialAbilities
  IN  IF \E a \in DOMAIN abilities : abilities[a].id = abilityId
      THEN CHOOSE a \in DOMAIN abilities :
             /\ abilities[a].id = abilityId
             /\ \A b \in DOMAIN abilities : abilities[b].id = abilityId => a <= b
      ELSE 0

\* A check that counts the cooldown from the last attempt of any ability.
canUseAbility_SharedClock(ch, abilityId, now) ==
  LET a == getAbility(ch, abilityId)
  IN  IF a = 0 THEN FALSE
      ELSE \A id \in DOMAIN ch.lastAbilityUse :
             now - ch.lastAbilityUse[id] >=
               ITALIAN_BRAINROT_CHARACTERS[ch.config].specialAbilities[a].cooldown

\* canUseAbility(abilityId); now is Date.now().
canUseAbility(ch, abilityId, now) ==
  LET a == getAbility(ch, abilityId)
  IN  IF a = 0 THEN FALSE
      ELSE LET lastUse == IF abilityId \in DOMAIN ch.lastAbilityUse /\ ch.lastAbilityUse[abilityId] # 0
                          THEN ch.lastAbilityUse[abilityId] ELSE 0
               timeSinceLastUse == now - lastUse
           IN  timeSinceLastUse >=
                 ITALIAN_BRAINROT_CHARACTERS[ch.config].specialAbilities[a].cooldown

\* useAbility(abilityId): the character afterwards, returned set.
useAbility(ch, abilityId, now) ==
  IF ~canUseAbility(ch, abilityId, now) THEN [ch EXCEPT !.returned = Null]
  ELSE IF getAbility(ch, abilityId) = 0 THEN [ch EXCEPT !.returned = Null]
       ELSE [ch EXCEPT !.lastAbilityUse = MapPut(@, abilityId, now),
                       !.returned = abilityId]

\* JSON values, as JSON.parse yields them and property access reads them.
Undefined == [t |-> "undefined"]
JStr(v) == [t |-> "string", v |-> v]

\* A JSON text is a sequence of tokens: the punctuation { } [ ], the literal
\* null, numbers, strings, and words that are no JSON at all.  The commas
\* and colons are left out.
\* The kinds k are "sym", "null", "num", "str" and "word".
Tok(k, v) == [k |-> k, v |-> v]

IsTok(text, i, tok) == i <= Len(text) /\ text[i].k = tok.k /\ text[i] = tok

\* JSON.parse from token i on: ok, the value and the next position.
RECURSIVE ParseValue(_, _), ParseItems(_, _, _), ParseMembers(_, _, _, _)
ParseValue(text, i) ==
  IF i > Len(text) THEN [ok |-> FALSE, value |-> Undefined, next |-> i]
  ELSE CASE text[i].k = "null" -> [ok |-> TRUE, value |-> [t |-> "null"], next |-> i + 1]
         [] text[i].k = "num" ->
              [ok |-> TRUE, value |-> [t |-> "number", n |-> text[i].v], next |-> i + 1]
         [] text[i].k = "str" -> [ok |-> TRUE, value |-> JStr(text[i].v), next |-> i + 1]
         [] IsTok(text, i, Tok("sym", "[")) -> ParseItems(text, i + 1, << >>)
         [] IsTok(text, i, Tok("sym", "{")) -> ParseMembers(text, i + 1, << >>, << >>)
         [] OTHER -> [ok |-> FALSE, value |-> Undefined, next |-> i]

ParseItems(text, i, items) ==
  IF i > Len(text) THEN [ok |-> FALSE, value |-> Undefined, next |-> i]
  ELSE IF IsTok(text, i, Tok("sym", "]"))
       THEN [ok |-> TRUE, value |-> [t |-> "array", items |-> items], next |-> i + 1]
  ELSE LET item == ParseValue(text, i)
       IN  IF item.ok THEN ParseItems(text, item.next, Append(items, item.value))
           ELSE item

ParseMembers(text, i, keys, vals) ==
  IF i > Len(text) THEN [ok |-> FALSE, value |-> Undefined, next |-> i]
  ELSE IF IsTok(text, i, Tok("sym", "}"))
       THEN [ok |-> TRUE, value |-> [t |-> "object", keys |-> keys, vals |-> vals],
             next |-> i + 1]
  ELSE IF text[i].k # "str" THEN [ok |-> FALSE, value |-> Undefined, next |-> i]
  ELSE LET val == ParseValue(text, i + 1)
       IN  IF val.ok
           THEN ParseMembers(text, val.next, Append(keys, text[i].v), Append(vals, val.value))
           ELSE val

\* JSON.parse(text): ok is false where it throws a SyntaxError.
JSONParse(text) ==
  LET r == ParseValue(text, 1)
  IN  IF r.ok /\ r.next = Len(text) + 1 THEN [ok |-> TRUE, value |-> r.value]
      ELSE [ok |-> FALSE, value |-> Undefined]

\* data.key; throws is true where the access throws a TypeError (data is
\* null).  A key that occurs twice has the value of its last occurrence.
GetProperty(data, key) ==
  IF data.t = "null" THEN [throws |-> TRUE, value |-> Undefined]
  ELSE IF data.t = "object" /\ \E j \in DOMAIN data.keys : data.keys[j] = key
       THEN [throws |-> FALSE,
             value |-> data.vals[CHOOSE j \in DOMAIN data.keys :
                                   /\ data.keys[j] = key
                                   /\ \A l \in DOMAIN data.keys : data.keys[l] = key => l <= j]]
       ELSE [throws |-> FALSE, value |-> Undefined]

\* The elements of a sequence in order of first occurrence.
RECURSIVE Distinct(_)
Distinct(items) ==
  IF items = << >> THEN << >>
  ELSE LET front == Distinct(SubSeq(items, 1, Len(items) - 1))
           last == items[Len(items)]
       IN  IF \E j \in DOMAIN front : front[j].t = last.t /\ front[j] = last
           THEN front ELSE Append(front, last)

\* new Set(value): the elements in insertion order; throws is true where
\* the value is not iterable (a number, an object).  A string, which is
\* iterable by characters, is not among the values passed.
NewSet(value) ==
  CASE value.t \in {"undefined", "null"} -> [throws |-> FALSE, elements |-> << >>]
    [] value.t = "array" -> [throws |-> FALSE, elements |-> Distinct(value.items)]
    [] OTHER -> [throws |-> TRUE, elements |-> << >>]

\* set.has(value) for a primitive value.
Has(elements, value) ==
  \E j \in DOMAIN elements : elements[j].t = value.t /\ elements[j] = value

\* The value is truthy.
Truthy(value) ==
  CASE value.t \in {"undefined", "null"} -> FALSE
    [] value.t = "number" -> value.n # 0
    [] value.t = "string" -> value.v # ""
    [] OTHER -> TRUE

\* The CharacterManager after its constructor, with the isUnlocked fields of
\* ITALIAN_BRAINROT_CHARACTERS as declared.  unlockedCharacters is the Set
\* in insertion order; returned is the boolean the last call returned.
\* saved is the string the last saveProgress call returned, kept by the
\* caller, and savedFrom the unlocked set, the flags and the current id of
\* the manager at that call.
CharacterManager ==
  [unlockedCharacters |-> << JStr("br-br-patapim") >>,
   isUnlocked |-> [c \in CharacterIx |-> ITALIAN_BRAINROT_CHARACTERS[c].isUnlocked],
   currentCharacter |-> Character(findCharacter("br-br-patapim")),
   returned |-> Null,
   saved |-> << >>,
   savedFrom |-> NullRef]

\* isCharacterUnlocked(characterId), characterId being any value.
isCharacterUnlocked(cm, characterId) == Has(cm.unlockedCharacters, characterId)

\* setCurrentCharacter(characterId)
setCurrentCharacter(cm, characterId) ==
  IF ~isCharacterUnlocked(cm, characterId) THEN [cm EXCEPT !.returned = "false"]
  ELSE LET c == IF characterId.t = "string" THEN findCharacter(characterId.v) ELSE 0
       IN  IF c = 0 THEN [cm EXCEPT !.returned = "false"]
           ELSE [cm EXCEPT !.currentCharacter = Character(c), !.returned = "true"]

\* unlockCharacter(characterId)
unlockCharacter(cm, characterId) ==
  LET c == findCharacter(characterId)
  IN  IF c = 0 THEN [cm EXCEPT !.returned = "false"]
      ELSE IF Has(cm.unlockedCharacters, JStr(characterId)) THEN [cm EXCEPT !.returned = "false"]
      ELSE [cm EXCEPT !.unlockedCharacters = Append(@, JStr(characterId)),
                      !.isUnlocked[c] = TRUE,
                      !.returned = "true"]

\* unlockCharacterByBoss(bossType)
unlockCharacterByBoss(cm, bossType) ==
  CASE bossType = "swarm-king" -> unlockCharacter(cm, "chimpanzini-bananini")
    [] bossType = "desert-bomber" -> unlockCharacter(cm, "bombardiro-crocodilo")
    [] bossType = "ice-shark" -> unlockCharacter(cm, "tralalero-tralala")
    [] OTHER -> [cm EXCEPT !.returned = "false"]

\* A load that empties the unlocked set before it reads the saved one.
loadProgress_ClearsFirst(cm, saveData) ==
  LET parsed == JSONParse(saveData)
      unlockedCharacters == GetProperty(parsed.value, "unlockedCharacters")
      set == NewSet(unlockedCharacters.value)
      currentCharacter == GetProperty(parsed.value, "currentCharacter").value
      loaded == [cm EXCEPT !.unlockedCharacters = set.elements,
                           !.isUnlocked = [c \in CharacterIx |->
                              Has(set.elements, JStr(ITALIAN_BRAINROT_CHARACTERS[c].id))]]
  IN  IF ~parsed.ok THEN [cm EXCEPT !.returned = "false"]
      ELSE IF unlockedCharacters.throws \/ set.throws
      THEN [cm EXCEPT !.unlockedCharacters = << >>, !.returned = "false"]
      ELSE IF Truthy(currentCharacter) /\ isCharacterUnlocked(loaded, currentCharacter)
      THEN [setCurrentCharacter(loaded, currentCharacter) EXCEPT !.returned = "true"]
      ELSE [loaded EXCEPT !.returned = "true"]

\* loadProgress(saveData): the catch block returns false where JSON.parse,
\* the property access or new Set throws.
loadProgress(cm, saveData) ==
  LET parsed == JSONParse(saveData)
      unlockedCharacters == GetProperty(parsed.value, "unlockedCharacters")
      set == NewSet(unlockedCharacters.value)
      currentCharacter == GetProperty(parsed.value, "currentCharacter").value
      loaded == [cm EXCEPT !.unlockedCharacters = set.elements,
                           !.isUnlocked = [c \in CharacterIx |->
                              Has(set.elements, JStr(ITALIAN_BRAINROT_CHARACTERS[c].id))]]
  IN  IF ~parsed.ok THEN [cm EXCEPT !.returned = "false"]
      ELSE IF unlockedCharacters.throws \/ set.throws THEN [cm EXCEPT !.returned = "false"]
      ELSE IF Truthy(currentCharacter) /\ isCharacterUnlocked(loaded, currentCharacter)
      THEN [setCurrentCharacter(loaded, currentCharacter) EXCEPT !.returned = "true"]
      ELSE [loaded EXCEPT !.returned = "true"]

\* ------------------------------------------------------------------------
\* State
\* ------------------------------------------------------------------------
VARIABLES
  isUnlocked,      \* zones[z].isUnlocked
  enemyState,      \* zones[z].enemies[i].state
  enemyRef,        \* zones[z].enemies[i].enemy (pool slot, 0 = undefined)
  objectRef,       \* zones[z].kickableObjects[i].object is set
  currentZone,     \* index of this.currentZone, 0 = null
  activeEnemies,   \* this.activeEnemies
  activeObjects,   \* this.activeObjects
  currentBoss,     \* this.currentBoss
  isBossFight,     \* this.isBossFight
  slots,           \* the Enemy instances of this.enemyPool
  trace,           \* what the last operation did
  now,             \* Date.now()
  boss,            \* SpecBoss: the Boss under test
  obj,             \* SpecProp: the KickableObject under test
  lastHit,         \* SpecProp: result of the last hitEnemy call
  character,       \* SpecCharacter: the Character under test
  manager          \* SpecManager: the CharacterManager

encVars == << isUnlocked, enemyState, enemyRef, objectRef, currentZone, activeEnemies,
              activeObjects, currentBoss, isBossFight, slots, trace >>

vars == << isUnlocked, enemyState, enemyRef, objectRef, currentZone, activeEnemies,
           activeObjects, currentBoss, isBossFight, slots, trace, now, boss, obj, lastHit,
           character, manager >>

\* The fields of the EncounterSystem in the current state.
Cur ==
  [isUnlocked |-> isUnlocked, enemyState |-> enemyState, enemyRef |-> enemyRef,
   objectRef |-> objectRef, currentZone |-> currentZone, activeEnemies |-> activeEnemies,
   activeObjects |-> activeObjects, currentBoss |-> currentBoss, isBossFight |-> isBossFight,
   slots |-> slots, trace |-> trace]

\* The operation op takes the EncounterSystem to the fields es.
Becomes(es) ==
  /\ isUnlocked' = es.isUnlocked
  /\ enemyState' = es.enemyState
  /\ enemyRef' = es.enemyRef
  /\ objectRef' = es.objectRef
  /\ currentZone' = es.currentZone
  /\ activeEnemies' = es.activeEnemies
  /\ activeObjects' = es.activeObjects
  /\ currentBoss' = es.currentBoss
  /\ isBossFight' = es.isBossFight
  /\ slots' = es.slots
  /\ trace' = es.trace

\* An operation starts with an empty trace.
Start(op) == [Cur EXCEPT !.trace = [NoTrace EXCEPT !.op = op]]

\* The state after new EncounterSystem(scene).
EncInit ==
  /\ isUnlocked = [z \in ZoneIx |-> zones[z].isUnlocked]
  /\ enemyState = [z \in ZoneIx |-> [i \in DOMAIN zones[z].enemies |-> zones[z].enemies[i].state]]
  /\ enemyRef = [z \in ZoneIx |-> [i \in DOMAIN zones[z].enemies |-> 0]]
  /\ objectRef = [z \in ZoneIx |-> [i \in DOMAIN zones[z].kickableObjects |-> FALSE]]
  /\ currentZone = 0
  /\ activeEnemies = EmptyMap
  /\ activeObjects = EmptyMap
  /\ currentBoss = NullRef
  /\ isBossFight = FALSE
  /\ slots = [k \in PoolSlots |-> NewEnemy]
  /\ trace = NoTrace

\* Date.now() at the start, later than any cooldown after time 0.
NowStart == 10000
\* The time between two observations of Date.now().
TickStep == 2000

Init ==
  /\ EncInit
  /\ now = NowStart
  /\ boss = NullRef
  /\ obj = NullRef
  /\ lastHit = NullRef
  /\ character = NullRef
  /\ manager = NullRef

\* ------------------------------------------------------------------------
\* Inputs
\* ------------------------------------------------------------------------
\* Zone ids passed to loadZone and unlockZone: the catalog and an id that is
\* not in it.
ZoneIdInputs == {zones[z].id : z \in ZoneIx} \cup {"lost-temple"}

\* The first argument of update: the value the callers pass, and in
\* SpecZoneProps also the frame time of a slower frame.
CallerTime == 16
CallerTimes == {CallerTime, 33}

\* The positions used in SpecZoneProps: far from everything, and on the
\* boss of the first and of the third zone.
PropZonePositions == { <<100, 100>>, <<900, 600>>, <<1400, 1800>> }

\* Values of Math.floor(Math.random() * n) before reduction to the list.
Picks == 0..1

\* Damage dealt to a boss in one hit: in Spec, and in SpecBoss.
ZoneBossHit == 300

\* Forces (forceX, forceY) and character kick forces passed to applyKick,
\* and the spins drawn for rotationSpeed.
KickForces == { <<100, 50>>, <<10, 0>>, <<0, 0>> }
CharacterKickForces == {100}
Spins == {5}

ZoneHit == 1000

\* ------------------------------------------------------------------------
\* Spec: the operations of the EncounterSystem
\* ------------------------------------------------------------------------
standalone == << boss, obj, lastHit, character, manager >>

loadZone(zoneId) ==
  /\ Becomes(LoadZone(Start("loadZone"), zoneId))
  /\ UNCHANGED << now, standalone >>

unlockZone(zoneId) ==
  /\ Becomes(UnlockZone(Start("unlockZone"), zoneId))
  /\ UNCHANGED << now, standalone >>

update(currentTime, playerPos, pick) ==
  /\ currentBoss # NullRef => currentBoss.swimTimer < MaxSwimUpdates * FixedDeltaMs
  /\ Becomes(Update([Start("update") EXCEPT !.trace.playerPos = playerPos],
                    currentTime, playerPos, now, pick))
  /\ UNCHANGED << now, standalone >>

reset ==
  /\ Becomes(Reset(Start("reset")))
  /\ UNCHANGED << now, standalone >>

\* Time passes.
Tick ==
  /\ now < NowStart + MaxTicks * TickStep
  /\ now' = now + TickStep
  /\ UNCHANGED << encVars, standalone >>

\* The collision code damages the boss: currentBoss.takeDamage(amount).
bossHit(amount) ==
  /\ currentBoss # NullRef
  /\ currentBoss.spriteActive
  /\ Becomes([Start("collaborator") EXCEPT !.currentBoss = Boss_takeDamage(@, amount).enemy])
  /\ UNCHANGED << now, standalone >>

\* The collision code damages a regular enemy to death: the death
\* animation starts.
enemyKilled(k) ==
  /\ k <= MaxHurt
  /\ \E key \in DOMAIN activeEnemies : activeEnemies[key] = k
  /\ slots[k].spriteActive /\ slots[k].health > 0
  /\ Becomes([Start("collaborator") EXCEPT
                !.slots[k] = Enemy_takeDamage(@, EnemyHealth).enemy])
  /\ UNCHANGED << now, standalone >>

\* The death animation of a regular enemy ends: dying becomes dead.
enemyDeathAnimationEnds(k) ==
  /\ k <= MaxHurt
  /\ slots[k].spriteActive /\ slots[k].isDying
  /\ Becomes([Start("collaborator") EXCEPT !.slots[k].isDying = FALSE])
  /\ UNCHANGED << now, standalone >>

\* Enemy.update moves a homing enemy.
enemyHomes(k, offset) ==
  /\ k <= MaxHurt
  /\ slots[k].spriteActive /\ slots[k].movementType = "homing"
  /\ \E key \in DOMAIN activeEnemies :
       /\ activeEnemies[key] = k
       /\ LET origin == zones[key[1]].enemies[key[2]].position
              pos == << origin[1] + offset[1], origin[2] + offset[2] >>
          IN  /\ slots[k].position # pos
              /\ Becomes([Start("collaborator") EXCEPT !.slots[k].position = pos])
  /\ UNCHANGED << now, standalone >>

\* The props of a zone are disturbed one at a time: all active props but
\* the one under key are as the constructor left them.
OthersAtRest(key) ==
  \A k \in DOMAIN activeObjects \ {key} :
    activeObjects[k] = KickableObject(zones[k[1]].kickableObjects[k[2]])

\* The weapon code kicks an active prop.
propKicked(key, force, kick, spin) ==
  /\ key \in DOMAIN activeObjects
  /\ key[2] <= MaxKicked
  /\ OthersAtRest(key)
  /\ Becomes([Start("collaborator") EXCEPT
                !.activeObjects[key] = applyKick(@, force[1], force[2], kick, spin)])
  /\ UNCHANGED << now, standalone >>

\* The collision code reports that an active prop hit an enemy.
propHitsEnemy(key) ==
  /\ key \in DOMAIN activeObjects
  /\ key[2] <= MaxKicked
  /\ OthersAtRest(key)
  /\ activeObjects[key].isFlying
  /\ Becomes([Start("collaborator") EXCEPT !.activeObjects[key] = hitEnemy(@, TRUE).obj])
  /\ UNCHANGED << now, standalone >>

\* An active prop is damaged.
propDamaged(key, amount) ==
  /\ key \in DOMAIN activeObjects
  /\ key[2] <= MaxKicked
  /\ OthersAtRest(key)
  /\ ~activeObjects[key].isBroken
  /\ Becomes([Start("collaborator") EXCEPT
                !.activeObjects[key] = KickableObject_takeDamage(@, amount)])
  /\ UNCHANGED << now, standalone >>

ObjectKeys == {<<z, i>> : z \in ZoneIx, i \in 1..MaxPlacements}

\* Spec: the operations, the clock and the damage dealt to the boss.  The
\* player positions are those that matter to the boss arenas.
Next ==
  \/ \E zoneId \in ZoneIdInputs : loadZone(zoneId)
  \/ \E zoneId \in ZoneIdInputs : unlockZone(zoneId)
  \/ \E playerPos \in { <<900, 600>>, <<900, 400>>, <<900, 399>>, <<100, 100>>,
                        <<2500, 700>>, <<1400, 1800>> },
        pick \in Picks : update(CallerTime, playerPos, pick)
  \/ reset
  \/ Tick
  \/ bossHit(ZoneBossHit)

Spec == Init /\ [][Next]_vars

\* SpecAggro: the operations and what happens to the regular enemies.
\* Player positions.  Around the first tutorial enemy (300,200), radius
\* 100: on it, on the radius, inside the hysteresis band, at 1.5 x radius
\* and just beyond; around the tutorial boss (900,600), arena radius 200:
\* on it, on the radius (which is also within 130 of the enemy at
\* (800,400)) and just beyond; far from everything; on the patrolling
\* enemy of the second zone and on the boss of the other two zones.
\* The homing behaviour of Enemy.update may have taken an enemy 140 above
\* the position it was spawned at.
NextAggro ==
  \/ \E zoneId \in ZoneIdInputs : loadZone(zoneId)
  \/ \E zoneId \in ZoneIdInputs : unlockZone(zoneId)
  \/ \E playerPos \in { <<300, 200>>, <<400, 200>>, <<420, 200>>, <<300, 350>>,
                        <<300, 351>>, <<900, 600>>, <<900, 400>>, <<900, 399>>,
                        <<100, 100>>, <<1700, 200>>, <<2500, 700>>, <<1400, 1800>> },
        pick \in Picks : update(CallerTime, playerPos, pick)
  \/ reset
  \/ \E k \in PoolSlots : enemyKilled(k)
  \/ \E k \in PoolSlots : enemyDeathAnimationEnds(k)
  \/ \E k \in PoolSlots, offset \in { <<0, -140>> } : enemyHomes(k, offset)

SpecAggro == Init /\ [][NextAggro]_vars

\* SpecZoneProps: the operations and what happens to the props of the zone.
NextZoneProps ==
  \/ \E zoneId \in ZoneIdInputs : loadZone(zoneId)
  \/ \E zoneId \in ZoneIdInputs : unlockZone(zoneId)
  \/ \E currentTime \in CallerTimes, playerPos \in PropZonePositions, pick \in Picks :
       update(currentTime, playerPos, pick)
  \/ reset
  \/ \E key \in ObjectKeys : propKicked(key, <<10, 0>>, 100, 0)
  \/ \E key \in ObjectKeys : propHitsEnemy(key)
  \/ \E key \in ObjectKeys : propDamaged(key, ZoneHit)

SpecZoneProps == Init /\ [][NextZoneProps]_vars

\* ------------------------------------------------------------------------
\* SpecBoss: one Boss constructed from a BossConfig
\* ------------------------------------------------------------------------

\* The BossConfigs a Boss is constructed from: those of the zone catalog;
\* "enum-boss", whose abilities and movement patterns are values of the
\* enums BossAttack and MovementPattern; "idle-boss", with one phase and no
\* abilities.
BossConfigs ==
  {zones[z].boss : z \in ZoneIx} \cup
  { [type |-> "enum-boss", position |-> <<0, 0>>, health |-> 600,
     phases |-> << Phase(100, <<BossAttack.ICE_DASH, BossAttack.CHARGE_SLAM>>,
                         MovementPattern.SWIMMING),
                   Phase(50, <<BossAttack.TRIPLE_DASH, BossAttack.MEGA_BOMB>>,
                         MovementPattern.FRENZY) >>,
     arenaRadius |-> 200, unlockCharacter |-> "none"],
    [type |-> "idle-boss", position |-> <<0, 0>>, health |-> 600,
     phases |-> << Phase(100, << >>, MovementPattern.STATIONARY) >>,
     arenaRadius |-> 200, unlockCharacter |-> "none"] }

\* Player positions handed to Boss.update.
BossPlayerPositions == { <<900, 600>> }

\* Boss.update is explored while at most MaxPending delayed callbacks of
\* the boss are outstanding.
MaxPending == 2

\* The clock is taken to the next delayed callback up to MaxAwait ms after
\* the start.
MaxAwait == 3000

InitBoss ==
  /\ EncInit
  /\ now = NowStart
  /\ boss \in {Boss(c) : c \in BossConfigs}
  /\ obj = NullRef
  /\ lastHit = NullRef
  /\ character = NullRef
  /\ manager = NullRef

\* The operation of the object under test that ran last.
Ran(op) ==
  /\ trace' = [NoTrace EXCEPT !.op = op]
  /\ UNCHANGED << isUnlocked, enemyState, enemyRef, objectRef, currentZone, activeEnemies,
                  activeObjects, currentBoss, isBossFight, slots >>

bossSpawn ==
  /\ ~boss.spriteActive
  /\ boss' = Boss_spawn(boss)
  /\ Ran("Boss.spawn")
  /\ UNCHANGED << now, obj, lastHit, character, manager >>

bossUpdate(playerPos, pick) ==
  /\ boss.spriteActive
  /\ Len(boss.pending) <= MaxPending
  /\ boss.swimTimer < MaxSwimUpdates * FixedDeltaMs
  /\ boss' = Boss_update(boss, FixedDeltaMs, playerPos, now, pick)
  /\ Ran("Boss.update")
  /\ UNCHANGED << now, obj, lastHit, character, manager >>

bossTakeDamage(amount) ==
  /\ boss.spriteActive
  /\ boss' = Boss_takeDamage(boss, amount).enemy
  /\ Ran("Boss.takeDamage")
  /\ UNCHANGED << now, obj, lastHit, character, manager >>

bossReset ==
  /\ boss.spriteActive
  /\ boss' = Boss_reset(boss)
  /\ Ran("Boss.reset")
  /\ UNCHANGED << now, obj, lastHit, character, manager >>

\* The scene clock runs the first delayed callback that is due.
bossCallback ==
  /\ \E k \in 1..Len(boss.pending) :
       /\ boss.pending[k].due <= now
       /\ \A j \in 1..(k - 1) : boss.pending[j].due > now
       /\ boss' = runCallback(boss, k, now)
  /\ Ran("Boss.callback")
  /\ UNCHANGED << now, obj, lastHit, character, manager >>

\* The scene clock reaches the time of the delayed callback that is due
\* next, as long as that is within MaxAwait ms of the start.
bossAwaits ==
  /\ boss.pending # << >>
  /\ \A k \in 1..Len(boss.pending) : boss.pending[k].due > now
  /\ \E k \in 1..Len(boss.pending) :
       /\ \A j \in 1..Len(boss.pending) : boss.pending[k].due <= boss.pending[j].due
       /\ boss.pending[k].due <= NowStart + MaxAwait
       /\ now' = boss.pending[k].due
  /\ UNCHANGED << encVars, standalone >>

NextBoss ==
  \/ bossSpawn
  \/ \E playerPos \in BossPlayerPositions, pick \in Picks : bossUpdate(playerPos, pick)
  \/ \E amount \in {150, 400, 600} : bossTakeDamage(amount)
  \/ bossReset
  \/ bossCallback
  \/ Tick

SpecBoss == InitBoss /\ [][NextBoss]_vars

\* SpecCharge: the Boss with the scene clock going from one delayed
\* callback to the next.
NextCharge ==
  \/ bossSpawn
  \/ \E playerPos \in BossPlayerPositions, pick \in Picks : bossUpdate(playerPos, pick)
  \/ bossTakeDamage(400)
  \/ bossReset
  \/ bossCallback
  \/ bossAwaits

SpecCharge == InitBoss /\ [][NextCharge]_vars

\* SpecSweep: a zone whose enemies die and whose props break between the
\* updates, with the player far from everything or on the boss of the
\* first zone.
NextSweep ==
  \/ \E zoneId \in ZoneIdInputs : loadZone(zoneId)
  \/ \E zoneId \in ZoneIdInputs : unlockZone(zoneId)
  \/ \E playerPos \in { <<100, 100>>, <<900, 600>> }, pick \in Picks :
       update(CallerTime, playerPos, pick)
  \/ reset
  \/ \E k \in PoolSlots : enemyKilled(k)
  \/ \E k \in PoolSlots : enemyDeathAnimationEnds(k)
  \/ \E key \in ObjectKeys : propDamaged(key, ZoneHit)

SpecSweep == Init /\ [][NextSweep]_vars

\* ------------------------------------------------------------------------
\* SpecProp: one KickableObject driven by its public methods
\* ------------------------------------------------------------------------
InitProp ==
  /\ EncInit
  /\ now = NowStart
  /\ boss = NullRef
  /\ obj \in {KickableObject(t) : t \in ObjectType}
  /\ lastHit = NullRef
  /\ character = NullRef
  /\ manager = NullRef

callApplyKick(force, kick, spin) ==
  /\ obj' = applyKick(obj, force[1], force[2], kick, spin)
  /\ lastHit' = NullRef
  /\ Ran("applyKick")
  /\ UNCHANGED << now, boss, character, manager >>

\* hitEnemy(enemy); lastHit keeps the prop before the call, the value
\* returned and the knockback handed to the enemy until the next call of a
\* method.
callHitEnemy(enemyHasKnockback) ==
  /\ LET r == hitEnemy(obj, enemyHasKnockback)
     IN  /\ obj' = r.obj
         /\ lastHit' = [before |-> obj, damage |-> r.damage, knockback |-> r.knockback]
  /\ Ran("hitEnemy")
  /\ UNCHANGED << now, boss, character, manager >>

callTakeDamage(amount) ==
  /\ obj' = KickableObject_takeDamage(obj, amount)
  /\ lastHit' = NullRef
  /\ Ran("takeDamage")
  /\ UNCHANGED << now, boss, character, manager >>

callUpdate ==
  /\ obj' = KickableObject_update(obj, FixedDeltaMs)
  /\ lastHit' = NullRef
  /\ Ran("update")
  /\ UNCHANGED << now, boss, character, manager >>

callReset ==
  /\ obj' = KickableObject_reset(obj)
  /\ lastHit' = NullRef
  /\ Ran("reset")
  /\ UNCHANGED << now, boss, character, manager >>

NextProp ==
  \/ \E force \in KickForces, kick \in CharacterKickForces, spin \in Spins :
       callApplyKick(force, kick, spin)
  \/ \E enemyHasKnockback \in BOOLEAN : callHitEnemy(enemyHasKnockback)
  \/ \E amount \in {7, 1000} : callTakeDamage(amount)
  \/ callUpdate
  \/ callReset

SpecProp == InitProp /\ [][NextProp]_vars

\* ------------------------------------------------------------------------
\* SpecCharacter: one Character driven by useAbility while time passes
\* ------------------------------------------------------------------------
\* Date.now() when the character is constructed: later than any cooldown
\* after time 0.
CharacterClockStart == 100000

\* The clock is observed until MaxClock ms after the start, ClockSteps apart.
MaxClock == 20000

\* Ability ids passed to useAbility: those of the catalog and one that no
\* character has.
AbilityInputs ==
  {ITALIAN_BRAINROT_CHARACTERS[c].specialAbilities[a].id :
     c \in CharacterIx, a \in 1..2} \cup {"non-existent"}

InitCharacter ==
  /\ EncInit
  /\ now = CharacterClockStart
  /\ boss = NullRef
  /\ obj = NullRef
  /\ lastHit = NullRef
  /\ character \in {Character(c) : c \in CharacterIx}
  /\ manager = NullRef

callUseAbility(abilityId) ==
  /\ character' = useAbility(character, abilityId, now)
  /\ Ran("useAbility")
  /\ UNCHANGED << now, boss, obj, lastHit, manager >>

timePasses(ms) ==
  /\ now + ms <= CharacterClockStart + MaxClock
  /\ now' = now + ms
  /\ UNCHANGED << encVars, standalone >>

NextCharacter ==
  \/ \E abilityId \in AbilityInputs : callUseAbility(abilityId)
  \/ \E ms \in {2000, 6000} : timePasses(ms)

SpecCharacter == InitCharacter /\ [][NextCharacter]_vars

\* ------------------------------------------------------------------------
\* SpecManager: the CharacterManager driven by its public methods
\* ------------------------------------------------------------------------
\* Character ids passed to unlockCharacter and setCurrentCharacter.
CharacterIdInputs ==
  {ITALIAN_BRAINROT_CHARACTERS[c].id : c \in CharacterIx} \cup {"unknown-character"}

\* The text JSON.stringify gives for an object with the two keys of a save.
SaveText(unlockedIds, currentId) ==
  << Tok("sym", "{"), Tok("str", "unlockedCharacters"), Tok("sym", "[") >>
    \o [j \in DOMAIN unlockedIds |-> Tok("str", unlockedIds[j])]
    \o << Tok("sym", "]"), Tok("str", "currentCharacter"), Tok("str", currentId), Tok("sym", "}") >>

\* Save data passed to loadProgress: 'invalid json'; a text cut off in the
\* middle; null; 5; {}; an object whose unlockedCharacters is a number; the
\* save of the test 'should load progress correctly'; a save whose current
\* character is not in its unlocked list; a save that names a character
\* the catalog does not have; a save with an empty list.
SaveInputs ==
  { << Tok("word", "invalid"), Tok("word", "json") >>,
    << Tok("sym", "{"), Tok("str", "unlockedCharacters"), Tok("sym", "["), Tok("str", "br-br-patapim") >>,
    << Tok("null", 0) >>,
    << Tok("num", 5) >>,
    << Tok("sym", "{"), Tok("sym", "}") >>,
    << Tok("sym", "{"), Tok("str", "unlockedCharacters"), Tok("num", 5),
       Tok("str", "currentCharacter"), Tok("str", "br-br-patapim"), Tok("sym", "}") >>,
    SaveText(<< "br-br-patapim", "bombardiro-crocodilo" >>, "bombardiro-crocodilo"),
    SaveText(<< "br-br-patapim" >>, "bombardiro-crocodilo"),
    SaveText(<< "br-br-patapim", "unknown-character" >>, "unknown-character"),
    SaveText(<< >>, "br-br-patapim") }

InitManager ==
  /\ EncInit
  /\ now = NowStart
  /\ boss = NullRef
  /\ obj = NullRef
  /\ lastHit = NullRef
  /\ character = NullRef
  /\ manager = CharacterManager

callUnlockCharacter(characterId) ==
  /\ manager' = unlockCharacter(manager, characterId)
  /\ Ran("unlockCharacter")
  /\ UNCHANGED << now, boss, obj, lastHit, character >>

callUnlockCharacterByBoss(bossType) ==
  /\ manager' = unlockCharacterByBoss(manager, bossType)
  /\ Ran("unlockCharacterByBoss")
  /\ UNCHANGED << now, boss, obj, lastHit, character >>

callSetCurrentCharacter(characterId) ==
  /\ manager' = setCurrentCharacter(manager, JStr(characterId))
  /\ Ran("setCurrentCharacter")
  /\ UNCHANGED << now, boss, obj, lastHit, character >>

callLoadProgress(saveData) ==
  /\ manager' = loadProgress(manager, saveData)
  /\ Ran("loadProgress")
  /\ UNCHANGED << now, boss, obj, lastHit, character >>

NextManager ==
  \/ \E characterId \in CharacterIdInputs : callUnlockCharacter(characterId)
  \/ \E bossType \in {zones[z].boss.type : z \in ZoneIx} \cup {"idle-boss"} :
        callUnlockCharacterByBoss(bossType)
  \/ \E characterId \in CharacterIdInputs : callSetCurrentCharacter(characterId)
  \/ \E saveData \in SaveInputs : callLoadProgress(saveData)

SpecManager == InitManager /\ [][NextManager]_vars

\* ------------------------------------------------------------------------
\* SpecSave: a CharacterManager reached by unlocking and choosing
\* characters, saved, and loaded again from its own save
\* ------------------------------------------------------------------------
\* A save that always names the first unlocked character as the current one.
saveProgress_SavesFirst(cm) ==
  SaveText([j \in DOMAIN cm.unlockedCharacters |-> cm.unlockedCharacters[j].v],
           cm.unlockedCharacters[1].v)

\* saveProgress(): the unlocked set as an array in insertion order and the
\* id of the current character.
saveProgress(cm) ==
  SaveText([j \in DOMAIN cm.unlockedCharacters |-> cm.unlockedCharacters[j].v],
           ITALIAN_BRAINROT_CHARACTERS[cm.currentCharacter.config].id)

callSaveProgress ==
  /\ manager' = [manager EXCEPT
                   !.saved = saveProgress(manager),
                   !.savedFrom =
                     [null |-> FALSE,
                      unlockedCharacters |-> manager.unlockedCharacters,
                      isUnlocked |-> manager.isUnlocked,
                      currentCharacter |->
                        ITALIAN_BRAINROT_CHARACTERS[manager.currentCharacter.config].id]]
  /\ Ran("saveProgress")
  /\ UNCHANGED << now, boss, obj, lastHit, character >>

NextSave ==
  \/ \E characterId \in CharacterIdInputs : callUnlockCharacter(characterId)
  \/ \E characterId \in CharacterIdInputs : callSetCurrentCharacter(characterId)
  \/ callSaveProgress
  \/ manager.saved # << >> /\ callLoadProgress(manager.saved)

SpecSave == InitManager /\ [][NextSave]_vars

\* ------------------------------------------------------------------------
\* Properties
\* ------------------------------------------------------------------------
\* The step is a call of EncounterSystem.update.
IsUpdateStep == trace'.op = "update" /\ now' = now

\* C1: after every operation of the EncounterSystem (loadZone, unlockZone,
\* update, reset), in any sequence of operations, isBossFight is true if and
\* only if currentBoss is non-null.
C1_FightIffBoss == isBossFight <=> (currentBoss # NullRef)

\* C1, the case reached: loadZone returns in the middle of a boss fight.
C1_Witness == trace.op = "loadZone" /\ currentZone # 0 /\ isBossFight /\ currentBoss # NullRef

\* C2: when an update call detects the defeat of the boss and runs the
\* defeat handling, then at its return isBossActive() is false and getBoss()
\* is null, whatever player position the call was given.
C2_DefeatEndsFight ==
  (trace.op = "update" /\ trace.defeated) =>
    (~isBossActive(Cur) /\ getBoss(Cur) = NullRef)

\* C3: for a placement in state Stationary whose live enemy is not aggroed
\* and is at distance d <= aggroRadius from the player, one update call made
\* while no boss fight is in progress leaves the placement Aggroed, the
\* hasAggro flag of the enemy true and its movement mode homing.
C3_StationaryAggroes ==
  [][(IsUpdateStep /\ currentZone # 0 /\ ~isBossFight) =>
       \A i \in DOMAIN zones[currentZone].enemies :
         LET z == currentZone
             k == enemyRef[z][i]
             r == zones[z].enemies[i].aggroRadius
         IN  (/\ enemyState[z][i] = STATIONARY
              /\ k # 0
              /\ slots[k].spriteActive
              /\ ~slots[k].hasAggro
              /\ DistSq(slots[k].position, trace'.playerPos) <= r * r)
             => (/\ enemyState'[z][i] = AGGROED
                 /\ slots'[k].hasAggro
                 /\ slots'[k].movementType = "homing")]_vars

\* C3, the case reached: the player stood on the aggro radius of the first
\* tutorial enemy (distance 100 = aggroRadius) and the update aggroed it.
C3_Witness ==
  /\ trace.op = "update"
  /\ trace.playerPos = <<400, 200>>
  /\ currentZone = 1
  /\ 1 \in trace.aggroed
  /\ enemyState[1][1] = AGGROED
  /\ slots[enemyRef[1][1]].hasAggro
  /\ slots[enemyRef[1][1]].movementType = "homing"

\* C4: an Aggroed placement stays Aggroed across every update call in which
\* the distance d to the player is <= 1.5 x aggroRadius; it leaves Aggroed
\* only in an update call where d > 1.5 x aggroRadius.
C4_AggroHysteresis ==
  [][\A z \in ZoneIx : \A i \in DOMAIN zones[z].enemies :
       (enemyState[z][i] = AGGROED /\ enemyState'[z][i] # AGGROED) =>
         LET k == enemyRef[z][i]
             r == zones[z].enemies[i].aggroRadius
         IN  /\ IsUpdateStep
             /\ z = currentZone
             /\ k # 0
             /\ 4 * DistSq(slots[k].position, trace'.playerPos) > 9 * r * r]_vars

\* C4, the case reached: the first tutorial enemy, aggroed earlier, went
\* through an update with the player at distance 150 = 1.5 x aggroRadius and
\* is still Aggroed.
C4_Witness ==
  /\ trace.op = "update"
  /\ trace.playerPos = <<300, 350>>
  /\ currentZone = 1
  /\ ~isBossFight
  /\ enemyState[1][1] = AGGROED
  /\ enemyRef[1][1] # 0
  /\ slots[enemyRef[1][1]].spriteActive
  /\ slots[enemyRef[1][1]].position = <<300, 200>>

\* C5: between the spawn of a boss and its reset, over any interleaving of
\* Boss.update and takeDamage calls, currentPhase never decreases and
\* satisfies 0 <= currentPhase <= phases.length - 1.
C5_PhaseMonotone ==
  [][(trace'.op \in {"Boss.update", "Boss.takeDamage"} /\ now' = now) =>
       /\ boss'.currentPhase >= boss.currentPhase
       /\ 0 <= boss'.currentPhase
       /\ boss'.currentPhase <= Len(boss'.bossConfig.phases) - 1]_vars

\* C5, the case reached: a boss with three phases was stepped into its last
\* phase.
C5_Witness ==
  /\ trace.op = "Boss.update"
  /\ boss.spriteActive
  /\ Len(boss.bossConfig.phases) = 3
  /\ boss.currentPhase = 2

\* C6: in every state of a KickableObject reachable through applyKick,
\* hitEnemy, takeDamage, update and reset, isBroken implies that isFlying is
\* false and the velocity is (0, 0).
C6_BrokenAtRest == obj.isBroken => (~obj.isFlying /\ obj.velocity = <<0, 0>>)

\* C6, the case reached: a flying prop broke on impact, and a kick was tried
\* on a broken prop.
C6_Witness ==
  /\ obj.isBroken
  /\ \/ trace.op = "hitEnemy" /\ lastHit.before.isFlying
     \/ trace.op = "applyKick"

\* C7: hitEnemy returns the damage constant of the prop type exactly when
\* the prop is flying and not broken at the call, also on the call whose
\* self-damage breaks the prop; otherwise it returns 0, changes nothing of
\* the prop and does not call the knockback of the enemy.
C7_HitDamage ==
  trace.op = "hitEnemy" =>
    IF lastHit.before.isFlying /\ ~lastHit.before.isBroken
    THEN lastHit.damage = OBJECT_CONFIGS[lastHit.before.type].damage
    ELSE /\ lastHit.damage = 0
         /\ obj = lastHit.before
         /\ lastHit.knockback = NullVec

\* C7, the case reached: the call whose self-damage broke the prop returned
\* the damage constant.
C7_Witness ==
  /\ trace.op = "hitEnemy"
  /\ lastHit.before.isFlying
  /\ ~lastHit.before.isBroken
  /\ obj.isBroken
  /\ lastHit.damage = OBJECT_CONFIGS[obj.type].damage

\* C8: once a prop is broken, a takeDamage call changes neither its health
\* nor a flag and does not replay the break effect; between construction or
\* reset and the next reset the break transition happens at most once.
C8_BreakOnce ==
  [][/\ (trace'.op = "takeDamage" /\ obj.isBroken) => obj' = obj
     /\ obj'.breakEffects <= 1]_vars

\* C8, the case reached: a barrel broken by an impact (the only way its
\* health ends at exactly 0, takeDamage being called with 7 or 1000) has
\* since been damaged again.
C8_Witness ==
  /\ trace.op = "takeDamage"
  /\ obj.type = "barrel"
  /\ obj.isBroken
  /\ obj.health = 0
  /\ obj.breakEffects = 1

\* C9: after reset() in any reachable state, getCurrentZone() is null,
\* isBossActive() is false, getBoss() is null, and getActiveEnemies() and
\* getActiveObjects() are empty.
C9_ResetClears ==
  trace.op = "reset" =>
    /\ currentZone = 0
    /\ ~isBossActive(Cur)
    /\ getBoss(Cur) = NullRef
    /\ getActiveEnemies(Cur) = {}
    /\ {k \in DOMAIN activeObjects : ~activeObjects[k].isBroken} = {}

\* C9, the case reached: reset ran on a loaded zone and retired its enemies
\* and props.
C9_Witness == trace.op = "reset" /\ trace.released # {} /\ trace.destroyed > 0

\* C10: a boss is spawned only by an update call, never by loadZone; in an
\* update on a loaded zone with no boss fight in progress and no boss
\* spawned, the fight starts in that call if and only if the distance from
\* the player to the boss position is <= arenaRadius (boundary included);
\* in tutorial-grove (900,600) starts it and (100,100) does not.
C10_LazyBossSpawn ==
  [][/\ (currentBoss = NullRef /\ currentBoss' # NullRef) => IsUpdateStep
     /\ (IsUpdateStep /\ currentZone # 0 /\ ~isBossFight /\ currentBoss = NullRef) =>
          LET cfg == zones[currentZone].boss
              p == trace'.playerPos
          IN  /\ (isBossFight' /\ currentBoss' # NullRef /\ trace'.started)
                   <=> (DistSq(p, cfg.position) <= cfg.arenaRadius * cfg.arenaRadius)
              /\ (cfg.type = "swarm-king" /\ p = <<900, 600>>) => isBossFight'
              /\ (cfg.type = "swarm-king" /\ p = <<100, 100>>) => ~isBossFight']_vars

\* C10, the case reached: the player stood on the arena boundary of the
\* tutorial boss (distance 200 = arenaRadius) and the update started the
\* fight.
C10_Witness ==
  /\ trace.op = "update"
  /\ trace.playerPos = <<900, 400>>
  /\ currentZone = 1
  /\ trace.started
  /\ isBossFight
  /\ currentBoss # NullRef
  /\ currentBoss.spriteActive

\* The zone id names no catalog zone, or one whose isUnlocked is false.
Refused(zoneId) ==
  \/ \A z \in ZoneIx : zones[z].id # zoneId
  \/ \E z \in ZoneIx : zones[z].id = zoneId /\ ~isUnlocked[z]

\* C11: loadZone with an unknown zone id or with a zone whose isUnlocked is
\* false changes no state: the loaded zone stays current, its enemies and
\* props are neither released nor destroyed, and the boss state and the
\* unlock flags are as before.
C11_RefusedLoadIsNoOp ==
  [][\A zoneId \in ZoneIdInputs :
       (trace'.op = "loadZone" /\ Refused(zoneId) /\ loadZone(zoneId)) =>
         /\ UNCHANGED << isUnlocked, enemyState, enemyRef, objectRef, currentZone,
                         activeEnemies, activeObjects, currentBoss, isBossFight, slots >>
         /\ trace'.released = {}
         /\ trace'.destroyed = 0]_vars

\* C11, the case reached: a loadZone returned during a boss fight with the
\* zone still current and no enemy spawned, which only a refused load does.
C11_Witness ==
  /\ trace.op = "loadZone"
  /\ currentZone # 0
  /\ DOMAIN activeEnemies = {}
  /\ DOMAIN activeObjects # {}
  /\ isBossFight
  /\ currentBoss # NullRef

\* C12: after a successful loadZone(z) from any prior state, every enemy of
\* the previously loaded zone has been released to the pool and every
\* previous prop destroyed, currentZone is z, and the active collections
\* hold exactly one runtime enemy per enemy placement of z and one runtime
\* prop per prop placement of z (5 and 3 for tutorial-grove).
C12_LoadReplacesZone ==
  [][\A zoneId \in ZoneIdInputs :
       (trace'.op = "loadZone" /\ ~Refused(zoneId) /\ loadZone(zoneId)) =>
         LET z == CHOOSE x \in ZoneIx : zones[x].id = zoneId
             before == {activeEnemies[k] : k \in DOMAIN activeEnemies}
         IN  /\ trace'.released = before
             /\ trace'.destroyed = Cardinality(DOMAIN activeObjects)
             /\ currentZone' = z
             /\ DOMAIN activeEnemies' = {<<z, i>> : i \in DOMAIN zones[z].enemies}
             /\ \A k1, k2 \in DOMAIN activeEnemies' :
                  activeEnemies'[k1] = activeEnemies'[k2] => k1 = k2
             /\ \A k \in DOMAIN activeEnemies' :
                  /\ slots'[activeEnemies'[k]].spriteActive
                  /\ ~slots'[activeEnemies'[k]].pooled
                  /\ slots'[activeEnemies'[k]].position = zones[z].enemies[k[2]].position
             /\ \A n \in PoolSlots :
                  (n \in before /\ \A k \in DOMAIN activeEnemies' : activeEnemies'[k] # n)
                    => slots'[n].pooled
             /\ DOMAIN activeObjects' = {<<z, i>> : i \in DOMAIN zones[z].kickableObjects}
             /\ \A k \in DOMAIN activeObjects' :
                  activeObjects'[k] = KickableObject(zones[z].kickableObjects[k[2]])
             /\ zoneId = "tutorial-grove" =>
                  /\ Cardinality(DOMAIN activeEnemies') = 5
                  /\ Cardinality(DOMAIN activeObjects') = 3]_vars

\* C12, the case reached: the second zone was loaded over a loaded zone,
\* whose enemies were released and whose props were destroyed.
C12_Witness ==
  /\ trace.op = "loadZone"
  /\ currentZone = 2
  /\ Cardinality(trace.released) = 5
  /\ trace.destroyed = 3
  /\ Cardinality(DOMAIN activeEnemies) = 6
  /\ Cardinality(DOMAIN activeObjects) = 3

\* C13: on boss defeat the character-unlock collaborator is called exactly
\* once, with the type in the config of the boss that was defeated, in every
\* reachable state in which a defeat is handled.
C13_UnlockForDefeatedBoss ==
  [][(IsUpdateStep /\ trace'.defeated) =>
       trace'.unlockCalls = << currentBoss.bossConfig.type >>]_vars

\* C14: during a boss fight every update call steps the boss, the call in
\* which the fight starts included: after any update call that returns with
\* a boss active, the update of that boss has been invoked at least once.
C14_ActiveBossWasStepped ==
  (trace.op = "update" /\ isBossActive(Cur)) => currentBoss.lastMove # "none"

\* The attack routine that belongs to a catalog ability id.
RoutineOfAbility(ability) ==
  CASE ability = "summon-swarm" -> "executeSummonSwarm"
    [] ability = "charge-attack" -> "executeChargeAttack"
    [] ability = "bomb-barrage" -> "executeBombBarrage"
    [] ability = "charge-slam" -> "executeChargeSlam"
    [] ability = "mega-bomb" -> "executeMegaBomb"
    [] ability = "ice-dash" -> "executeIceDash"
    [] ability = "freeze-wave" -> "executeFreezeWave"
    [] ability = "mega-freeze" -> "executeMegaFreeze"
    [] ability = "triple-dash" -> "executeTripleDash"
    [] OTHER -> Null

\* C15: every ability id listed in a phase of a catalog boss is dispatched
\* to its attack routine when selected; when the tutorial boss selects its
\* charge ability it enters the charging state (isCharging, chargeTarget =
\* the player position).
C15_CatalogAbilitiesDispatch ==
  (/\ trace.op = "Boss.update"
   /\ boss.bossConfig \in {zones[z].boss : z \in ZoneIx}
   /\ boss.attacked) =>
    /\ boss.lastAttack.routine = RoutineOfAbility(boss.lastAttack.ability)
    /\ boss.lastAttack.ability = "charge-attack" =>
         (boss.isCharging /\ boss.chargeTarget \in BossPlayerPositions)

\* C16: while the current phase's movement pattern is the catalog's
\* 'aggressive-swim', every boss update with the boss neither charging nor
\* dying runs the aggressive swim movement (1.1x speed along the heading,
\* heading re-aimed at the player every SwimRefreshMs).
C16_AggressiveSwimMoves ==
  [][(/\ trace'.op = "Boss.update"
      /\ now' = now
      /\ ~boss.isDying
      /\ ~boss.isCharging
      /\ boss'.bossConfig.phases[boss'.currentPhase + 1].movementPattern = "aggressive-swim") =>
       boss'.lastMove = MovementPattern.AGGRESSIVE_SWIM]_vars

\* C17: every hitEnemy call on a flying, unbroken prop returns the damage
\* constant, and an enemy that has applyKnockback receives half of the
\* velocity the prop had when hitEnemy was called, whatever health the prop
\* had left.
C17_KnockbackIsHalfVelocity ==
  (/\ trace.op = "hitEnemy"
   /\ lastHit # NullRef
   /\ lastHit.before.isFlying
   /\ ~lastHit.before.isBroken) =>
    /\ lastHit.damage = OBJECT_CONFIGS[lastHit.before.type].damage
    /\ lastHit.knockback # NullVec =>
         lastHit.knockback = << TDiv(lastHit.before.velocity[1] * 5, 10),
                                TDiv(lastHit.before.velocity[2] * 5, 10) >>

\* C18: the attack step of a boss update dispatches an ability only when
\* now - lastAttackTime >= attackCooldown (as they stand after the phase
\* check of the same update); the dispatched ability is one of the current
\* phase's abilities and lastAttackTime becomes now; when nothing is
\* dispatched, in particular when the phase lists no abilities,
\* lastAttackTime is left as it was.
C18_AttackStepRespectsCooldown ==
  [][(trace'.op = "Boss.update" /\ now' = now) =>
       LET mid == checkPhaseTransition(boss, now)
           abilities == PhaseAt(mid, mid.currentPhase).abilities
       IN  /\ boss'.attacked =>
                /\ now - mid.lastAttackTime >= mid.attackCooldown
                /\ \E i \in DOMAIN abilities : abilities[i] = boss'.lastAttack.ability
                /\ boss'.lastAttackTime = now
           /\ Len(abilities) = 0 => ~boss'.attacked
           /\ ~boss'.attacked => boss'.lastAttackTime = mid.lastAttackTime
           /\ boss'.currentPhase = mid.currentPhase]_vars

C18_Witness ==
  /\ trace.op = "Boss.update"
  /\ boss.attacked
  /\ boss.currentPhase = 1
  /\ boss.lastAttackTime = now
  /\ boss.lastAttack.ability \in {"summon-swarm", "charge-attack"}

\* C19: handling a boss defeat while catalog zone i is current sets the
\* isUnlocked flag of zone i+1 whatever its requiredCharacters and whatever
\* the unlock collaborator did; for the last zone no flag changes; no other
\* zone's flag changes.
C19_DefeatUnlocksNextZone ==
  [][(IsUpdateStep /\ trace'.defeated) =>
       \A z \in ZoneIx :
         isUnlocked'[z] = IF z = currentZone + 1 THEN TRUE ELSE isUnlocked[z]]_vars

C19_Witness ==
  /\ trace.op = "update"
  /\ trace.defeated
  /\ trace.unlocked = {2}
  /\ zones[2].requiredCharacters # {}

\* C20: a placement of a zone that is not the current zone never holds a
\* runtime enemy or prop reference: unloading a zone (a successful loadZone
\* of another zone, or reset) clears the references of its placements.
C20_OnlyCurrentZoneHoldsRefs ==
  \A z \in ZoneIx :
    z # currentZone =>
      /\ \A i \in DOMAIN enemyRef[z] : enemyRef[z][i] = 0
      /\ \A i \in DOMAIN objectRef[z] : ~objectRef[z][i]

\* C21: over any sequence of loadZone, update and reset calls (sweeps and
\* boss-fight starts included), the enemies are acquired and released in
\* pairs: a call releases only enemies that were acquired and not yet
\* released, each of them once; every enemy that a call takes out of the
\* active collection has been released by it; and afterwards the acquired
\* enemies are exactly those of the active collection, each under one key.
C21_AcquireReleasePaired ==
  [][trace'.op \in {"loadZone", "update", "reset"} =>
       /\ \A s \in trace'.released : ~slots[s].pooled
       /\ trace'.releaseCalls = Cardinality(trace'.released)
       /\ \A k \in DOMAIN activeEnemies :
            \/ activeEnemies[k] \in trace'.released
            \/ k \in DOMAIN activeEnemies' /\ activeEnemies'[k] = activeEnemies[k]
       /\ \A s \in PoolSlots :
            slots'[s].pooled <=> ~(\E k \in DOMAIN activeEnemies' : activeEnemies'[k] = s)
       /\ \A k1, k2 \in DOMAIN activeEnemies' :
            activeEnemies'[k1] = activeEnemies'[k2] => k1 = k2]_vars

C21_Witness ==
  /\ trace.op = "update"
  /\ ~trace.started
  /\ trace.released # {}
  /\ DOMAIN activeEnemies # {}

\* C22: the result of EncounterSystem.update does not depend on its first
\* argument: from every reachable state, two calls that differ only in that
\* argument leave equal encounter, boss and prop states; the flying props
\* have moved by velocity * 16 ms and a swimming boss has counted 16 ms.
C22_UpdateIgnoresCallerTime ==
  \A playerPos \in PropZonePositions, pick \in Picks :
    LET called == [Start("update") EXCEPT !.trace.playerPos = playerPos]
        r == Update(called, CallerTime, playerPos, now, pick)
    IN  /\ \A currentTime \in CallerTimes :
             Update(called, currentTime, playerPos, now, pick) = r
        /\ \A k \in DOMAIN activeObjects \cap DOMAIN r.activeObjects :
             (activeObjects[k].isFlying /\ ~activeObjects[k].isBroken) =>
               r.activeObjects[k].moved = << activeObjects[k].velocity[1] * 16,
                                             activeObjects[k].velocity[2] * 16 >>
        /\ (currentZone # 0 /\ currentBoss # NullRef /\ r.currentBoss # NullRef) =>
             r.currentBoss.swimTimer \in {0, currentBoss.swimTimer, currentBoss.swimTimer + 16}

\* An update has stepped a flying prop and a swimming boss.
C22_Witness ==
  /\ trace.op = "update"
  /\ currentBoss # NullRef
  /\ currentBoss.swimTimer > 0
  /\ \E k \in DOMAIN activeObjects : activeObjects[k].moved # <<0, 0>>

\* C23 as stated: applyKick on an unbroken prop sets the velocity to
\* (forceX, forceY) x (100 / weight) x (characterKickForce / 100) whatever
\* the velocity was, and sets isFlying even for a zero velocity; for equal
\* force and kick force a lighter prop gets a strictly larger speed than any
\* heavier prop; on a broken prop applyKick changes nothing.
C23_KickSetsVelocity ==
  [][\A force \in KickForces, kick \in CharacterKickForces, spin \in Spins :
       (trace'.op = "applyKick" /\ callApplyKick(force, kick, spin)) =>
         IF obj.isBroken THEN obj' = obj
         ELSE /\ obj'.velocity = << TDiv(force[1] * 100 * kick, obj.weight * 100),
                                    TDiv(force[2] * 100 * kick, obj.weight * 100) >>
              /\ obj'.isFlying
              /\ \A t \in ObjectType :
                   OBJECT_CONFIGS[t].weight > obj.weight =>
                     SpeedSq(obj'.velocity) >
                       SpeedSq(<< TDiv(force[1] * 100 * kick, OBJECT_CONFIGS[t].weight * 100),
                                  TDiv(force[2] * 100 * kick, OBJECT_CONFIGS[t].weight * 100) >>)]_vars

\* C23 as amended: the same, the comparison of speeds being claimed for a
\* force other than (0,0) and a kick force other than 0.
C23_KickSetsVelocityNonzero ==
  [][\A force \in KickForces, kick \in CharacterKickForces, spin \in Spins :
       (trace'.op = "applyKick" /\ callApplyKick(force, kick, spin)) =>
         IF obj.isBroken THEN obj' = obj
         ELSE /\ obj'.velocity = << TDiv(force[1] * 100 * kick, obj.weight * 100),
                                    TDiv(force[2] * 100 * kick, obj.weight * 100) >>
              /\ obj'.isFlying
              /\ \A t \in ObjectType :
                   (OBJECT_CONFIGS[t].weight > obj.weight /\ force # <<0, 0>> /\ kick # 0) =>
                     SpeedSq(obj'.velocity) >
                       SpeedSq(<< TDiv(force[1] * 100 * kick, OBJECT_CONFIGS[t].weight * 100),
                                  TDiv(force[2] * 100 * kick, OBJECT_CONFIGS[t].weight * 100) >>)]_vars

\* A prop that was flying at another velocity has been kicked again.
C23_Witness ==
  /\ trace.op = "applyKick"
  /\ obj.isFlying
  /\ obj.velocity = << TDiv(100 * 100 * 100, obj.weight * 100),
                       TDiv(50 * 100 * 100, obj.weight * 100) >>
  /\ obj.moved # <<0, 0>>
  /\ obj.moved # << obj.velocity[1] * FixedDeltaMs, obj.velocity[2] * FixedDeltaMs >>

\* C24: immediately after the update call that starts a boss fight, every
\* regular enemy that was active has been released to the pool and is no
\* longer in the active collection, and getActiveEnemies() lists the boss
\* and nothing else.
C24_FightStartClearsEnemies ==
  [][(IsUpdateStep /\ trace'.started) =>
       /\ \A k \in DOMAIN activeEnemies :
            /\ activeEnemies[k] \in trace'.released
            /\ slots'[activeEnemies[k]].pooled
            /\ ~slots'[activeEnemies[k]].spriteActive
       /\ DOMAIN activeEnemies' = {}
       /\ currentBoss' # NullRef
       /\ currentBoss'.spriteActive
       /\ getActiveEnemies([Cur EXCEPT !.activeEnemies = activeEnemies', !.slots = slots',
                                        !.currentBoss = currentBoss'])
            = {<<"boss", 0>>}]_vars

C24_Witness ==
  /\ trace.op = "update"
  /\ trace.started
  /\ Cardinality(trace.released) = Len(zones[currentZone].enemies)
  /\ trace.released # {}
  /\ getActiveEnemies(Cur) = {<<"boss", 0>>}

\* C26: for each ability of a character on its own, useAbility(id) returns
\* the ability and records the time of use exactly when the ability exists
\* and it was never used or at least its cooldown has passed since its last
\* successful use; otherwise it returns null and leaves the recorded time of
\* every ability as it was.
C26_AbilityCooldownsIndependent ==
  [][\A abilityId \in AbilityInputs :
       (trace'.op = "useAbility" /\ callUseAbility(abilityId)) =>
         LET abilities == ITALIAN_BRAINROT_CHARACTERS[character.config].specialAbilities
             ready == \E a \in DOMAIN abilities :
                        /\ abilities[a].id = abilityId
                        /\ \/ abilityId \notin DOMAIN character.lastAbilityUse
                           \/ now - character.lastAbilityUse[abilityId] >= abilities[a].cooldown
         IN  IF ready
             THEN /\ character'.returned = abilityId
                  /\ DOMAIN character'.lastAbilityUse =
                       DOMAIN character.lastAbilityUse \cup {abilityId}
                  /\ character'.lastAbilityUse[abilityId] = now
                  /\ \A id \in DOMAIN character.lastAbilityUse \ {abilityId} :
                       character'.lastAbilityUse[id] = character.lastAbilityUse[id]
             ELSE /\ character'.returned = Null
                  /\ character'.lastAbilityUse = character.lastAbilityUse]_vars

\* An ability was used again after its cooldown while the other ability of
\* the character was still cooling down.
C26_Witness ==
  /\ trace.op = "useAbility"
  /\ character.returned # Null
  /\ character.lastAbilityUse[character.returned] = now
  /\ now >= CharacterClockStart + 6000
  /\ \E id \in DOMAIN character.lastAbilityUse :
       /\ id # character.returned
       /\ now - character.lastAbilityUse[id] < 6000
       /\ now > character.lastAbilityUse[id]

\* C25: whenever loadProgress returns false (the text is no JSON, or the
\* unlocked set cannot be built from the parsed data), it has changed
\* neither the unlocked-character set, nor any character's isUnlocked flag,
\* nor the current character.
C25_FailedLoadChangesNothing ==
  [][(trace'.op = "loadProgress" /\ manager'.returned = "false") =>
       /\ manager'.unlockedCharacters = manager.unlockedCharacters
       /\ manager'.isUnlocked = manager.isUnlocked
       /\ manager'.currentCharacter = manager.currentCharacter]_vars

\* A load has failed in a manager with three unlocked characters, the
\* current one not being the default.
C25_Witness ==
  /\ trace.op = "loadProgress"
  /\ manager.returned = "false"
  /\ Len(manager.unlockedCharacters) = 3
  /\ manager.currentCharacter.config # 1

\* C27: whenever a boss is active (currentBoss is not null) it is the boss of
\* the current zone: a zone is loaded and currentBoss was built from its
\* boss config.
C27_BossBelongsToCurrentZone ==
  currentBoss # NullRef =>
    /\ currentZone # 0
    /\ currentBoss.bossConfig = zones[currentZone].boss

\* C28: for every placement of the current zone that has a runtime enemy,
\* the placement's state is Aggroed if and only if that enemy's hasAggro
\* flag is true.
C28_AggroedIffHasAggro ==
  currentZone # 0 =>
    \A i \in DOMAIN enemyRef[currentZone] :
      enemyRef[currentZone][i] # 0 =>
        (enemyState[currentZone][i] = AGGROED <=> slots[enemyRef[currentZone][i]].hasAggro)

\* C29: one Boss.update (one phase check) increases currentPhase by at most
\* 1, also when the health is already at or below the thresholds of several
\* later phases.
C29_OnePhasePerCheck ==
  [][(trace'.op = "Boss.update" /\ now' = now) =>
       boss'.currentPhase <= boss.currentPhase + 1]_vars

\* An update has entered the second of three phases with the health at or
\* below the threshold of the third.
C29_Witness ==
  /\ trace.op = "Boss.update"
  /\ Len(boss.bossConfig.phases) = 3
  /\ boss.currentPhase = 1
  /\ boss.health > 0
  /\ boss.health * 100 <= boss.bossConfig.phases[3].healthThreshold * boss.maxHealth

\* C30: with phase thresholds strictly decreasing by index, a Boss.update
\* made while currentPhase is below the largest index whose threshold is at
\* or above the health ratio raises currentPhase by exactly 1, and an update
\* made at that index leaves it there: with the health staying at or below
\* the threshold of phase k, currentPhase >= k after at most
\* k - currentPhase updates, and the index settles at the largest index
\* whose threshold is at or above the health ratio.
C30_PhaseCatchesUp ==
  [][(trace'.op = "Boss.update" /\ now' = now /\ boss.maxHealth > 0) =>
       LET phases == boss.bossConfig.phases
           decreasing == \A i, j \in DOMAIN phases :
                           i < j => phases[i].healthThreshold > phases[j].healthThreshold
           within == {k \in 0..(Len(phases) - 1) :
                        boss.health * 100 <= phases[k + 1].healthThreshold * boss.maxHealth}
           largest == CHOOSE k \in within : \A l \in within : l <= k
       IN  decreasing =>
             /\ within # {}
             /\ boss.currentPhase <= largest
             /\ boss.currentPhase < largest => boss'.currentPhase = boss.currentPhase + 1
             /\ boss.currentPhase = largest => boss'.currentPhase = largest]_vars

\* An update has taken a boss to the third phase, at whose threshold its
\* health was two updates before.
C30_Witness ==
  /\ trace.op = "Boss.update"
  /\ Len(boss.bossConfig.phases) = 3
  /\ boss.currentPhase = 2
  /\ boss.health > 0
  /\ boss.health * 100 <= boss.bossConfig.phases[3].healthThreshold * boss.maxHealth

\* C31: between two consecutive attack dispatches of a boss at least the
\* attackCooldown in force at the second dispatch elapses, also when the
\* second dispatch is made by an update in which a phase transition occurs.
C31_DispatchesSpaced ==
  [][(trace'.op = "Boss.update" /\ now' = now /\ boss'.attacked /\ boss.lastDispatch # 0) =>
       now - boss.lastDispatch >= boss'.attackCooldown]_vars

\* C31 as amended: the same for the updates in which no phase transition
\* occurs.
C31_DispatchesSpacedWithinPhase ==
  [][(trace'.op = "Boss.update" /\ now' = now /\ boss'.attacked /\ boss.lastDispatch # 0
        /\ boss'.currentPhase = boss.currentPhase) =>
       now - boss.lastDispatch >= boss'.attackCooldown]_vars

\* A second dispatch has been made within a phase, a full cooldown after
\* the first one.
C31_Witness ==
  /\ trace.op = "Boss.update"
  /\ boss.attacked
  /\ boss.lastDispatch = now
  /\ boss.prevDispatch # 0
  /\ boss.lastDispatch - boss.prevDispatch = boss.attackCooldown
  /\ boss.currentPhase = 0

\* C32: once Boss.reset() has run and no attack has been dispatched since,
\* isCharging is false and chargeTarget is null, whichever of the delayed
\* callbacks scheduled before the reset have fired in the meantime.
C32_ResetStaysCalm ==
  (boss # NullRef /\ boss.lastDispatch = 0) =>
    (~boss.isCharging /\ boss.chargeTarget = NullVec)

\* C33: a charging boss always has a delayed callback outstanding that
\* leads to the end of the charge: the one that clears isCharging and
\* chargeTarget, or a telegraph that will schedule it; so a boss all of
\* whose delayed callbacks have fired is not charging, whichever charge
\* attacks overlapped.
C33_ChargeGetsCleared ==
  (boss # NullRef /\ boss.isCharging) =>
    \E k \in 1..Len(boss.pending) :
      \/ boss.pending[k].kind = "chargeClear"
      \/ boss.pending[k].kind = "chargeImpulse" /\ boss.chargeTarget # NullVec

\* The last delayed callback of a triple dash has fired, the dashes having
\* overlapped, and the boss is not charging.
C33_Witness ==
  /\ trace.op = "Boss.callback"
  /\ boss.lastAttack.routine = "executeTripleDash"
  /\ boss.lastDispatch # 0
  /\ now >= boss.lastDispatch + 2 * TripleDashGapMs + ChargeTelegraphMs
  /\ boss.pending = << >>
  /\ ~boss.isCharging
  /\ boss.chargeTarget = NullVec

\* C34: an update that de-aggroes an Aggroed placement leaves the placement
\* Patrolling if it has a patrol path and Stationary otherwise, and leaves
\* its enemy, where the update keeps it active, without aggro and in the
\* movement mode patrol or stationary accordingly.
C34_DeAggroTarget ==
  [][(IsUpdateStep /\ currentZone # 0) =>
       \A i \in trace'.calmed :
         LET z == currentZone
             k == enemyRef[z][i]
             hasPath == Len(zones[z].enemies[i].patrolPath) > 0
         IN  /\ enemyState[z][i] = AGGROED
             /\ enemyState'[z][i] = IF hasPath THEN PATROLLING ELSE STATIONARY
             /\ (\E key \in DOMAIN activeEnemies' : activeEnemies'[key] = k) =>
                  /\ ~slots'[k].hasAggro
                  /\ slots'[k].movementType = IF hasPath THEN "patrol" ELSE "stationary"]_vars

\* The patrolling placement of the second zone has been de-aggroed and is
\* Patrolling again.
C34_Witness ==
  /\ trace.op = "update"
  /\ currentZone = 2
  /\ 1 \in trace.calmed
  /\ enemyState[2][1] = PATROLLING
  /\ enemyRef[2][1] # 0
  /\ slots[enemyRef[2][1]].movementType = "patrol"
  /\ ~slots[enemyRef[2][1]].hasAggro

\* C35: in every reachable state the state of every enemy placement is
\* Stationary, Patrolling or Aggroed, never Combat or Fleeing.
C35_NoCombatNoFleeing ==
  \A z \in ZoneIx : \A i \in DOMAIN zones[z].enemies :
    /\ enemyState[z][i] \in {STATIONARY, PATROLLING, AGGROED, "combat", "fleeing"}
    /\ enemyState[z][i] \notin {"combat", "fleeing"}

\* After an update that aggroed a placement of the second zone there are
\* placements in each of the three states.
C35_Witness ==
  /\ trace.op = "update"
  /\ \A st \in {STATIONARY, PATROLLING, AGGROED} :
       \E z \in ZoneIx : \E i \in DOMAIN zones[z].enemies : enemyState[z][i] = st
  /\ \E i \in DOMAIN zones[2].enemies : i \in trace.aggroed /\ currentZone = 2

\* C36: every update of a flying, unbroken prop brings the speed down to at
\* most bounceDecay (< 1) times what it was, and leaves the prop not flying
\* with velocity (0,0) and rotationSpeed 0 where that decayed speed is below
\* 20, a zero-force kick included: a prop that is not kicked again stops
\* flying after finitely many updates.
C36_FlightEnds ==
  [][(trace'.op = "update" /\ obj # NullRef /\ obj.isFlying /\ ~obj.isBroken) =>
       LET d == OBJECT_CONFIGS[obj.type].bounceDecay
       IN  /\ d < 100
           /\ 10000 * SpeedSq(obj'.velocity) <= d * d * SpeedSq(obj.velocity)
           /\ obj'.isFlying => SpeedSq(obj'.velocity) >= RestSpeed * RestSpeed
           /\ ~obj'.isFlying => obj'.velocity = <<0, 0>> /\ obj'.rotationSpeed = 0
           /\ d * d * SpeedSq(obj.velocity) < 10000 * RestSpeed * RestSpeed =>
                ~obj'.isFlying]_vars

\* A box kicked with force (100,50) has slowed down over several updates
\* and the last one has brought it to rest.
C36_Witness ==
  /\ trace.op = "update"
  /\ obj.type = "box"
  /\ ~obj.isFlying /\ ~obj.isBroken
  /\ obj.velocity = <<0, 0>>
  /\ obj.moved[2] # 0
  /\ obj.moved[1] < 100 * FixedDeltaMs

\* C37: when an update on a loaded zone returns, no active prop is broken,
\* the props that were broken have been destroyed once each and dropped,
\* no active enemy has an active sprite, health <= 0 and the dying flag
\* false, the enemies that were so have been released and dropped, and the
\* enemies with health <= 0 that were in their death animation are still
\* active.
C37_SweepLeaves ==
  [][(IsUpdateStep /\ currentZone # 0) =>
       LET dead(e) == e.spriteActive /\ e.health <= 0 /\ ~e.isDying
           broken == {k \in DOMAIN activeObjects : activeObjects[k].isBroken}
       IN  /\ \A k \in DOMAIN activeObjects' : ~activeObjects'[k].isBroken
           /\ broken \cap DOMAIN activeObjects' = {}
           /\ trace'.destroyed = Cardinality(broken)
           /\ \A k \in DOMAIN activeEnemies' : ~dead(slots'[activeEnemies'[k]])
           /\ \A k \in DOMAIN activeEnemies :
                LET e == slots[activeEnemies[k]]
                IN  /\ dead(e) => (k \notin DOMAIN activeEnemies'
                                     /\ activeEnemies[k] \in trace'.released)
                    /\ (e.health <= 0 /\ e.isDying) => k \in DOMAIN activeEnemies']_vars

\* C37 as amended: the same, the enemies in their death animation staying
\* active unless the update starts the boss fight.
C37_SweepLeavesOutsideFightStart ==
  [][(IsUpdateStep /\ currentZone # 0) =>
       LET dead(e) == e.spriteActive /\ e.health <= 0 /\ ~e.isDying
           broken == {k \in DOMAIN activeObjects : activeObjects[k].isBroken}
       IN  /\ \A k \in DOMAIN activeObjects' : ~activeObjects'[k].isBroken
           /\ broken \cap DOMAIN activeObjects' = {}
           /\ trace'.destroyed = Cardinality(broken)
           /\ \A k \in DOMAIN activeEnemies' : ~dead(slots'[activeEnemies'[k]])
           /\ \A k \in DOMAIN activeEnemies :
                LET e == slots[activeEnemies[k]]
                IN  /\ dead(e) => (k \notin DOMAIN activeEnemies'
                                     /\ activeEnemies[k] \in trace'.released)
                    /\ (e.health <= 0 /\ e.isDying /\ ~trace'.started) =>
                         k \in DOMAIN activeEnemies']_vars

\* An update away from the arena has released a dead enemy and destroyed a
\* broken prop.
C37_Witness ==
  /\ trace.op = "update"
  /\ ~trace.started
  /\ currentZone # 0
  /\ trace.released # {}
  /\ trace.destroyed > 0
  /\ \A k \in trace.released : \A key \in DOMAIN activeEnemies : activeEnemies[key] # k

\* C38: after any sequence of unlockCharacter, unlockCharacterByBoss,
\* setCurrentCharacter and loadProgress calls the current character is an
\* unlocked character.
C38_CurrentIsUnlocked ==
  manager # NullRef =>
    isCharacterUnlocked(manager,
      JStr(ITALIAN_BRAINROT_CHARACTERS[manager.currentCharacter.config].id))

\* C39: as long as unlockZone is not called from outside, the unlocked zones
\* are a non-empty prefix of the catalog order: the first zone starts unlocked
\* with the others locked, every step other than an unlockZone call takes a
\* prefix to a prefix, and no step at all turns an unlocked zone back to
\* locked.
C39_UnlockedPrefix ==
  /\ isUnlocked[1] /\ \A z \in ZoneIx : (z > 1 /\ isUnlocked[z]) => isUnlocked[z - 1]
  /\ [][/\ \A z \in ZoneIx : isUnlocked[z] => isUnlocked'[z]
        /\ (/\ ~(trace'.op = "unlockZone" /\ now' = now)
            /\ isUnlocked[1]
            /\ \A z \in ZoneIx : (z > 1 /\ isUnlocked[z]) => isUnlocked[z - 1])
           => (/\ isUnlocked'[1]
               /\ \A z \in ZoneIx : (z > 1 /\ isUnlocked'[z]) => isUnlocked'[z - 1])]_vars

\* The defeat of the second zone's boss has unlocked the third zone, the
\* whole catalog now being unlocked.
C39_Witness ==
  /\ trace.op = "update"
  /\ trace.defeated
  /\ trace.unlocked = {3}
  /\ \A z \in ZoneIx : isUnlocked[z]

\* C40: for every manager state reached by unlock and set-current calls,
\* loading the string saveProgress returned, into the same or a different
\* such state, returns true and leaves the unlocked set, every isUnlocked
\* flag and the current character id as they were when the string was saved.
C40_SaveLoadRoundTrip ==
  [][trace'.op = "loadProgress" =>
       /\ manager'.returned = "true"
       /\ {manager'.unlockedCharacters[j] : j \in DOMAIN manager'.unlockedCharacters}
            = {manager.savedFrom.unlockedCharacters[j] :
                 j \in DOMAIN manager.savedFrom.unlockedCharacters}
       /\ manager'.isUnlocked = manager.savedFrom.isUnlocked
       /\ ITALIAN_BRAINROT_CHARACTERS[manager'.currentCharacter.config].id
            = manager.savedFrom.currentCharacter]_vars

\* A save taken with two characters unlocked and the second one current has
\* been loaded, and the manager has these two unlocked and the second
\* current again.
C40_Witness ==
  /\ manager # NullRef
  /\ trace.op = "loadProgress"
  /\ manager.returned = "true"
  /\ Len(manager.savedFrom.unlockedCharacters) = 2
  /\ manager.savedFrom.currentCharacter = "chimpanzini-bananini"
  /\ Len(manager.unlockedCharacters) = 2
  /\ manager.currentCharacter.config = findCharacter("chimpanzini-bananini")

====
